---------------------------- MODULE Spec2Model ----------------------------
(***************************************************************************)
(* A model of the indexing and retrieval pipeline of free-local-rag:       *)
(*   - LocalEmbeddingIndexer.chunk_by_sections (src/src/indexer.py),       *)
(*     translated statement by statement over character sequences;         *)
(*   - LocalEmbeddingIndexer.build / save_index (src/src/indexer.py) and   *)
(*     RAGChatbot.load_index / retrieve (src/src/chatbot.py), over the     *)
(*     three persisted files.                                              *)
(* Strings are sequences of one-character strings, so that split, strip,   *)
(* replace and slicing are computed as Python computes them.               *)
(***************************************************************************)
EXTENDS Integers, Sequences, FiniteSets, TLC

VARIABLES
    \* ---- LocalEmbeddingIndexer.__init__ and chunk_by_sections ----
    content,          \* the content string handed to chunk_by_sections
    arg_chunk_size,   \* constructor argument chunk_size: <<>> is None, <<n>> is n
    arg_chunk_overlap,\* constructor argument chunk_overlap, same encoding
    cfg_chunk_size,   \* Config.CHUNK_SIZE (rag.chunk_size of config.yaml)
    cfg_chunk_overlap,\* Config.CHUNK_OVERLAP (rag.chunk_overlap of config.yaml)
    chunk_size,       \* self.chunk_size
    chunk_overlap,    \* self.chunk_overlap
    sections,         \* the sections the for loop has still to visit
    section_name,     \* local section_name of the current section
    section_content,  \* local section_content of the current section
    start,            \* local start of the splitting loop
    part_num,         \* local part_num of the splitting loop
    chunks,           \* local chunks, the list under construction
    pc,               \* position in chunk_by_sections
    \* ---- the three persisted files (Config.FAISS_INDEX_FILE, CHUNKS_FILE, METADATA_FILE) ----
    fs_index,
    fs_chunks,
    fs_meta,
    \* ---- LocalEmbeddingIndexer.build ----
    b_pc,             \* position in build / save_index
    b_gen,            \* number of build() invocations so far (tags what each writes)
    b_source,         \* what the content path of this invocation points at
    b_error,          \* the kind of exception build raised, "none" when it has not
    b_content,        \* local content
    b_chunks,         \* local chunks
    b_embeddings,     \* local embeddings
    b_index,          \* local index
    b_result,         \* the dict build returned
    b_trace,          \* history: the steps this invocation has completed
    b_fs_at_call,     \* history: the three files as they were when build was called
    b_documents,      \* load_content's local documents (what load_directory returned)
    b_default,        \* whether build was called without a content_path
    \* ---- RAGChatbot ----
    c_pc,             \* position in __init__ / load_index
    c_error,          \* the kind of exception load_index raised, "none" when it has not
    c_top_k,          \* self.top_k
    c_index,          \* self.index
    c_chunks,         \* self.chunks
    c_metadata,       \* self.metadata
    c_retrieved,      \* outcome of the last retrieve call
    \* ---- the score of retrieve, on its own ----
    s_pc,             \* "idle", "call" (two distances given) or "scored"
    s_d1,             \* a distance of the search answer
    s_d2,             \* another distance
    s_score1,         \* similarity computed for s_d1
    s_score2,         \* similarity computed for s_d2
    \* ---- RAGChatbot.chat ----
    ch_pc,            \* position in chat
    ch_query,         \* argument query
    ch_show_context,  \* argument show_context
    ch_retrieved,     \* local retrieved
    ch_context,       \* local context
    ch_sources,       \* local sources
    ch_calls,         \* history: calls of client.chat.completions.create in this invocation
    ch_exception,     \* history: <<str(e)>> of the exception the try block raised, <<>> for none
    ch_error,         \* the kind of exception chat raised, "none" when it has not
    ch_result,        \* the dict chat returned
    \* ---- the data directory and DocumentLoader ----
    d_content_file,   \* Config.CONTENT_FILE (data/content.txt): a file source, or MissingPath
    d_input_folder,   \* data.input_folder of config.yaml
    d_client_content, \* the files of Config.CLIENT_CONTENT_DIR (data/client_content)
    d_folder,         \* the files of the other folder data.input_folder can name
    d_saved,          \* history: the files saved through the admin panel upload
    ld_file,          \* the file load_document was called on
    ld_result,        \* what that call gave
    \* ---- the web app (app.py) ----
    app_cache,        \* st.cache_resource entry of load_chatbot: "empty", "chatbot" or "None"
    app_loaded_at,    \* history: builds finished when the cached entry was computed
    app_built,        \* history: number of the last admin-panel build that succeeded, 0 for none
    app_queries,      \* history: chat queries submitted so far
    app_answer,       \* history: <<app_loaded_at>> of the chatbot that answered the last query
    \* ---- run_interactive (chatbot.py) ----
    ri_pc,            \* "prompt": at the top of the while loop; "left": the loop is over
    ri_event,         \* what the last input() gave: a line, or the exception it raised
    ri_raised,        \* the exception the last iteration raised inside its try, "none" for none
    ri_chats,         \* history: calls of self.chat so far
    ri_reported,      \* history: errors printed by the except Exception branch so far
    ri_prompts        \* history: iterations so far

chunkVars == <<content, arg_chunk_size, arg_chunk_overlap, cfg_chunk_size,
               cfg_chunk_overlap, chunk_size, chunk_overlap, sections,
               section_name, section_content, start, part_num, chunks, pc>>

fileVars == <<fs_index, fs_chunks, fs_meta>>

buildVars == <<b_pc, b_gen, b_source, b_error, b_content, b_chunks, b_embeddings,
               b_index, b_result, b_trace, b_fs_at_call, b_documents, b_default>>

chatVars == <<c_pc, c_error, c_top_k, c_index, c_chunks, c_metadata, c_retrieved>>

scoreVars == <<s_pc, s_d1, s_d2, s_score1, s_score2>>

callVars == <<ch_pc, ch_query, ch_show_context, ch_retrieved, ch_context, ch_sources,
              ch_calls, ch_exception, ch_error, ch_result>>

dataVars == <<d_content_file, d_input_folder, d_client_content, d_folder, d_saved,
              ld_file, ld_result>>

appVars == <<app_cache, app_loaded_at, app_built, app_queries, app_answer>>

replVars == <<ri_pc, ri_event, ri_raised, ri_chats, ri_reported, ri_prompts>>

pipelineVars == <<fileVars, buildVars, chatVars, scoreVars, callVars, dataVars, appVars,
                  replVars>>

vars == <<chunkVars, pipelineVars>>

----------------------------------------------------------------------------
(* Bounds of the model *)

\* longest section body the enumerated contents hold
MaxBody == 5
\* most blocks (header + body) an enumerated content is made of
MaxSections == 2
\* largest chunk_size / chunk_overlap value enumerated
MaxSize == 3

\* a splitting loop that does not advance is cut after this many parts (a loop
\* that advances is never cut: it ends by its own condition)
MaxParts == 4
\* most build() invocations in a behaviour
MaxBuilds == 2
\* most chat queries submitted to the web app in a behaviour
MaxQueries == 3
\* most prompts of run_interactive in a behaviour
MaxPrompts == 3
\* largest top_k a chatbot is constructed with
MaxTopK == 2
\* the longest result list format_context is applied to
MaxResults == 3
\* most files in a directory load_directory walks
MaxFiles == 2
\* most files saved through the admin panel in a behaviour
MaxUploads == 2
\* bits of the significand of the model's floating-point numbers (float32,
\* the type of the distances of the search, has 24)
Precision == 4
\* the distances given to the score on its own are m * 2^e with
\* -MaxExp <= e <= MaxExp
MaxExp == 3

----------------------------------------------------------------------------
(* Python string operations on sequences of characters *)

NL == "\n"

\* str.isspace for the characters the model uses
IsSpace(c) == c \in {" ", NL}

\* s[i:] with a 1-based i (i = Len(s) + 1 gives the empty string)
From(s, i) == SubSeq(s, i, Len(s))

\* whether sep occurs in s at 1-based position i
MatchAt(s, sep, i) ==
    /\ i + Len(sep) - 1 <= Len(s)
    /\ \A k \in 1..Len(sep) : s[i + k - 1] = sep[k]

RECURSIVE SplitFrom(_, _, _, _)
SplitFrom(s, sep, i, cur) ==
    IF i > Len(s) THEN <<cur>>
    ELSE IF MatchAt(s, sep, i)
         THEN <<cur>> \o SplitFrom(s, sep, i + Len(sep), <<>>)
         ELSE SplitFrom(s, sep, i + 1, Append(cur, s[i]))

\* s.split(sep): every piece between non-overlapping occurrences, left to right
Split(s, sep) == SplitFrom(s, sep, 1, <<>>)

RECURSIVE LStrip(_)
LStrip(s) == IF s # <<>> /\ IsSpace(Head(s)) THEN LStrip(Tail(s)) ELSE s

RECURSIVE RStrip(_)
RStrip(s) ==
    IF s # <<>> /\ IsSpace(s[Len(s)]) THEN RStrip(SubSeq(s, 1, Len(s) - 1)) ELSE s

\* s.strip()
Strip(s) == RStrip(LStrip(s))

\* s.split(sep, 1): at most two pieces, cut at the first occurrence of sep
SplitOnce(s, sep) ==
    LET hits == {i \in 1..Len(s) : MatchAt(s, sep, i)}
    IN  IF hits = {} THEN <<s>>
        ELSE LET i == CHOOSE h \in hits : \A g \in hits : h <= g
             IN  <<SubSeq(s, 1, i - 1), From(s, i + Len(sep))>>

RECURSIVE ReplaceFrom(_, _, _, _)
ReplaceFrom(s, old, new, i) ==
    IF i > Len(s) THEN <<>>
    ELSE IF MatchAt(s, old, i)
         THEN new \o ReplaceFrom(s, old, new, i + Len(old))
         ELSE <<s[i]>> \o ReplaceFrom(s, old, new, i + 1)

\* s.replace(old, new) for a non-empty old
Replace(s, old, new) == ReplaceFrom(s, old, new, 1)

\* Python's normalisation of a slice bound b for a string of length n
SliceBound(b, n) ==
    IF b < 0 THEN (IF b + n < 0 THEN 0 ELSE b + n)
    ELSE IF b > n THEN n ELSE b

\* s[a:b] with Python's 0-based, clamped, negative-from-the-end bounds
PySlice(s, a, b) ==
    LET lo == SliceBound(a, Len(s))
        hi == SliceBound(b, Len(s))
    IN  IF lo >= hi THEN <<>> ELSE SubSeq(s, lo + 1, hi)

\* str(n) for n >= 0
RECURSIVE Str(_)
Str(n) ==
    LET d == <<"0", "1", "2", "3", "4", "5", "6", "7", "8", "9">>
    IN  IF n < 10 THEN <<d[n + 1]>> ELSE Str(n \div 10) \o <<d[(n % 10) + 1]>>

\* a or b for an optional int a: None and 0 are falsy
PyOr(a, b) == IF a = <<>> THEN b ELSE IF a[1] = 0 THEN b ELSE a[1]

----------------------------------------------------------------------------
(* Floating-point numbers: <<m, e>> is m * 2^e, with m = 0 or                *)
(* 2^(Precision-1) <= m < 2^Precision; results are rounded to nearest, ties  *)
(* to even, as IEEE 754 arithmetic rounds them                               *)

RECURSIVE Pow2(_)
Pow2(n) == IF n = 0 THEN 1 ELSE 2 * Pow2(n - 1)

RECURSIVE BitLen(_)
\* the number of binary digits of n
BitLen(n) == IF n = 0 THEN 0 ELSE 1 + BitLen(n \div 2)

FZero == <<0, 0>>

\* the float nearest to (n + f) * 2^e, where 0 <= f < 1 and sticky tells f > 0
FRound(n, e, sticky) ==
    IF n = 0 THEN FZero
    ELSE IF n < Pow2(Precision)
         THEN LET k == Precision - BitLen(n) IN <<n * Pow2(k), e - k>>
         ELSE LET s    == BitLen(n) - Precision
                  q    == n \div Pow2(s)
                  r    == n % Pow2(s)
                  half == Pow2(s - 1)
                  up   == r > half \/ (r = half /\ (sticky \/ q % 2 = 1))
                  q1   == IF up THEN q + 1 ELSE q
              IN  IF q1 = Pow2(Precision)
                  THEN <<Pow2(Precision - 1), e + s + 1>>
                  ELSE <<q1, e + s>>

\* a non-negative integer as a float (the distances of the model's index)
ToFloat(n) == FRound(n, 0, FALSE)

\* 1 + d
FAddOne(d) ==
    IF d[2] >= 0 THEN FRound(1 + d[1] * Pow2(d[2]), 0, FALSE)
    ELSE FRound(Pow2(0 - d[2]) + d[1], d[2], FALSE)

\* 1 / a for a > 0
FRecip(a) ==
    LET K == 2 * Precision
    IN  FRound(Pow2(K) \div a[1], 0 - K - a[2], Pow2(K) % a[1] > 0)

\* a < b
FLess(a, b) ==
    LET lo == IF a[2] < b[2] THEN a[2] ELSE b[2]
    IN  a[1] * Pow2(a[2] - lo) < b[1] * Pow2(b[2] - lo)

FOne == ToFloat(1)

\* the distances the score is computed for on its own: 0 and every float
\* m * 2^e with -MaxExp <= e <= MaxExp
Distances ==
    { FZero } \cup { <<m, e>> : m \in Pow2(Precision - 1)..(Pow2(Precision) - 1),
                                e \in (0 - MaxExp)..MaxExp }

----------------------------------------------------------------------------
(* Literals of the source *)

\* '=== PAGINA:'
Marker == <<"=", "=", "=", " ", "P", "A", "G", "I", "N", "A", ":">>
\* '==='
Rule == <<"=", "=", "=">>
\* 'content.txt'
SourceName == "content.txt"

\* f"{section_name} (part {part_num})"
PartLabel(name, n) == name \o <<" ", "(", "p", "a", "r", "t", " ">> \o Str(n) \o <<")">>

----------------------------------------------------------------------------
(* The contents and configurations enumerated *)

Letters == <<"a", "b", "c", "d", "e", "f", "g", "h">>

\* what precedes a body: a section header in one of its spellings, or nothing
Headers ==
    { Marker \o <<" ", "A", " ">> \o Rule \o <<NL>>,   \* '=== PAGINA: A ===\n'
      Marker \o <<"B", NL>>,                            \* '=== PAGINA:B\n'
      <<>> }                                            \* no header

\* bodies: the prefixes of 'abcdefgh' up to MaxBody, blank text, padded text
Bodies ==
    { SubSeq(Letters, 1, n) : n \in 0..MaxBody }
      \cup { <<" ">>, <<" ", "a", "b", NL>> }

\* the bodies of the blocks after the first: none, a short one, the longest
MoreBodies == { <<>>, <<"x", "y">>, SubSeq(Letters, 1, MaxBody) }

Blocks == { h \o b : h \in Headers, b \in Bodies }

MoreBlocks == { h \o b : h \in Headers, b \in MoreBodies }

RECURSIVE Contents(_)
\* the contents of at most n blocks
Contents(n) ==
    IF n = 0 THEN { <<>> }
    ELSE IF n = 1 THEN { <<>> } \cup Blocks
    ELSE LET shorter == Contents(n - 1)
         IN  shorter \cup { c \o b : c \in shorter, b \in MoreBlocks }

OptInt == { <<>> } \cup { <<n>> : n \in 0..MaxSize }

\* the values config.yaml gives rag.chunk_size and rag.chunk_overlap
ConfigChoices == { <<MaxSize, 0>>, <<2, 1>> }

----------------------------------------------------------------------------
(* LocalEmbeddingIndexer.__init__ *)

InitChunkSize(arg, cfg) == PyOr(arg, cfg)

InitChunkOverlap(arg, cfg) == PyOr(arg, cfg)

----------------------------------------------------------------------------
(* LocalEmbeddingIndexer.chunk_by_sections *)

\* lines = section.strip().split('\n', 1)
Lines(section) == SplitOnce(Strip(section), <<NL>>)

\* mutant: the '===' of the header line is left in the name
SectionNameKeepRule(section) == Strip(Lines(section)[1])

\* section_name = lines[0].strip().replace('===', '').strip()
SectionName(section) == Strip(Replace(Strip(Lines(section)[1]), Rule, <<>>))

\* mutant: the body is taken as it stands, not stripped
SectionContentUnstripped(section) ==
    IF Len(Lines(section)) > 1 THEN Lines(section)[2] ELSE <<>>

\* section_content = lines[1].strip() if len(lines) > 1 else ""
SectionContent(section) ==
    IF Len(Lines(section)) > 1 THEN Strip(Lines(section)[2]) ELSE <<>>

\* the dict appended to chunks
Chunk(text, section) == [text |-> text, source |-> SourceName, section |-> section]

\* mutant: the window advances by a whole chunk_size, the overlap forgotten
AdvanceNoOverlap(s) == s + chunk_size

\* mutant: the window is made to advance by at least one character
AdvanceAtLeastOne(s) ==
    s + (IF chunk_size - chunk_overlap < 1 THEN 1 ELSE chunk_size - chunk_overlap)

\* start += self.chunk_size - self.chunk_overlap
Advance(s) == s + chunk_size - chunk_overlap

\* mutant: the slice takes one character too many
ChunkTextLong(body, s) == PySlice(body, s, s + chunk_size + 1)

\* mutant: the slice takes one character too few
ChunkTextShort(body, s) == PySlice(body, s, s + chunk_size - 1)

\* chunk_text = section_content[start:end] with end = start + self.chunk_size
ChunkText(body, s) == PySlice(body, s, s + chunk_size)

RECURSIVE SplitParts(_, _, _, _)
\* the chunks the splitting loop appends for one section, from start s and part n
SplitParts(body, name, s, n) ==
    IF ~(s < Len(body)) THEN <<>>
    ELSE <<Chunk(ChunkText(body, s), PartLabel(name, n))>>
             \o SplitParts(body, name, Advance(s), n + 1)

\* the chunks one iteration of the for loop appends
SectionChunks(section) ==
    IF Strip(section) = <<>> THEN <<>>
    ELSE IF SectionContent(section) = <<>> THEN <<>>
    ELSE IF Len(SectionContent(section)) <= chunk_size
         THEN <<Chunk(SectionContent(section), SectionName(section))>>
         ELSE SplitParts(SectionContent(section), SectionName(section), 0, 1)

RECURSIVE ChunksOf(_)
ChunksOf(secs) ==
    IF secs = <<>> THEN <<>> ELSE SectionChunks(Head(secs)) \o ChunksOf(Tail(secs))

\* chunk_by_sections(content) as a function, for a configuration under which
\* the splitting loop advances
ChunkBySections(c) == ChunksOf(Split(c, Marker))

----------------------------------------------------------------------------
(* The persisted files, embeddings and the index search *)

\* a file that does not exist
Absent == [state |-> "absent"]

\* a file opened for writing and not yet written in full
Partial == [state |-> "partial"]

\* faiss_index.index as written by build invocation g
IndexFile(g, idx) == [state |-> "full", gen |-> g, index |-> idx]

\* chunks.pkl as written by build invocation g
ChunksFile(g, ch) == [state |-> "full", gen |-> g, chunks |-> ch]

\* metadata.json as written by build invocation g
MetaFile(g, md) == [state |-> "full", gen |-> g, metadata |-> md]

files == <<fs_index, fs_chunks, fs_meta>>

\* the characters the embedding model tells apart
Alphabet == Letters \o <<"x", "y">>

CharCode(c) ==
    IF \E i \in 1..Len(Alphabet) : Alphabet[i] = c
    THEN CHOOSE i \in 1..Len(Alphabet) : Alphabet[i] = c
    ELSE 0

RECURSIVE CodeSum(_)
CodeSum(text) == IF text = <<>> THEN 0 ELSE CharCode(Head(text)) + CodeSum(Tail(text))

\* SentenceTransformer.encode of one text: a vector fixed by the text
Encode(text) == <<CodeSum(text)>>

\* self.embedding_dim
EmbeddingDim == Len(Encode(<<>>))

\* self.model_name
ModelName == "paraphrase-multilingual-MiniLM-L12-v2"

RECURSIVE SqDist(_, _)
\* squared Euclidean distance, the metric of IndexFlatL2
SqDist(u, v) ==
    IF u = <<>> THEN 0
    ELSE (Head(u) - Head(v)) * (Head(u) - Head(v)) + SqDist(Tail(u), Tail(v))

\* the distance IndexFlatL2.search gives a padding entry
PadDistance == 9999

Hit(d, i) == [distance |-> d, id |-> i]

RECURSIVE NearestOrders(_, _, _, _)
\* every way to list the m nearest of the vectors ids of idx, nearest first:
\* each one in turn is a nearest of those not yet listed (ties in any order)
NearestOrders(idx, q, ids, m) ==
    IF m = 0 \/ ids = {} THEN { <<>> }
    ELSE LET best == { i \in ids :
                         \A j \in ids : SqDist(q, idx[i + 1]) <= SqDist(q, idx[j + 1]) }
         IN  UNION { { <<i>> \o rest : rest \in NearestOrders(idx, q, ids \ {i}, m - 1) } :
                       i \in best }

\* every answer index.search(query, k) may give over the vectors idx: the
\* min(k, N) nearest ids by non-decreasing distance (ties in any order), then
\* padding entries with id -1
SearchResults(idx, q, k) ==
    LET N == Len(idx)
        m == IF k < N THEN k ELSE N
    IN  { [i \in 1..k |-> IF i <= m THEN Hit(SqDist(q, idx[h[i] + 1]), h[i])
                                    ELSE Hit(PadDistance, -1)] :
            h \in NearestOrders(idx, q, 0..(N - 1), m) }

\* the contents build() is run on: no section, one short section, and a
\* section that is split followed by a short one
BuildContents ==
    { <<>>,
      Marker \o <<" ", "A", " ">> \o Rule \o <<NL, "a", "b">>,
      Marker \o <<" ", "A", " ">> \o Rule \o <<NL, "a", "b", "c", "d">>
          \o <<NL>> \o Marker \o <<"B", NL, "x", "y">> }

\* '=== DOCUMENT: '
DocMarker == <<"=", "=", "=", " ", "D", "O", "C", "U", "M", "E", "N", "T", ":", " ">>

\* f"=== DOCUMENT: {filename} ===\n\n{content.strip()}"
DocSection(doc) == DocMarker \o doc.filename \o <<" ">> \o Rule \o <<NL, NL>> \o Strip(doc.content)

RECURSIVE Join(_, _)
\* sep.join(parts)
Join(parts, sep) ==
    IF parts = <<>> THEN <<>>
    ELSE IF Len(parts) = 1 THEN parts[1]
    ELSE parts[1] \o sep \o Join(Tail(parts), sep)

RECURSIVE DocSections(_)
\* the sections list of aggregate_documents: documents with blank content are left out
DocSections(documents) ==
    IF documents = <<>> THEN <<>>
    ELSE (IF Strip(Head(documents).content) # <<>> THEN <<DocSection(Head(documents))>> ELSE <<>>)
             \o DocSections(Tail(documents))

\* ContentAggregator.aggregate_documents(documents)
AggregateDocuments(documents) == Join(DocSections(documents), <<NL, NL>>)

\* str.lower() on the letters of the file suffixes
LowerChar(c) ==
    CASE c = "P" -> "p" [] c = "D" -> "d" [] c = "F" -> "f"
      [] c = "T" -> "t" [] c = "X" -> "x" [] c = "M" -> "m"
      [] c = "E" -> "e" [] c = "I" -> "i" [] c = "Q" -> "q"
      [] c = "U" -> "u" [] c = "H" -> "h" [] c = "L" -> "l"
      [] OTHER -> c

Lower(s) == [i \in 1..Len(s) |-> LowerChar(s[i])]

\* the suffixes of load_directory's supported_exts, the keys of load_document's loaders
SupportedExts ==
    { <<".", "t", "x", "t">>, <<".", "p", "d", "f">>,
      <<".", "d", "o", "c", "x">>, <<".", "d", "o", "c">>,
      <<".", "m", "d">>, <<".", "m", "a", "r", "k", "d", "o", "w", "n">> }

\* a file of a directory: the stem and the suffix of its name, its text, and
\* whether its loader returns (ok) or raises
DirFile(name, ext, text, ok) ==
    [filename |-> name \o ext, ext |-> ext, content |-> text, ok |-> ok]

\* a .txt file of a directory
DirEntry(name, text, ok) == DirFile(name, <<".", "t", "x", "t">>, text, ok)

\* a path load_document is given that does not exist
NoFile == [filename |-> <<>>, ext |-> <<>>, content |-> <<>>, ok |-> FALSE, missing |-> TRUE]

Exists(file) == "missing" \notin DOMAIN file

\* DocumentLoader.load_document(file_path): the document dict, or the exception
LoadDocument(file) ==
    IF ~Exists(file) THEN [status |-> "FileNotFoundError"]
    ELSE IF Lower(file.ext) \notin SupportedExts THEN [status |-> "ValueError"]
    ELSE IF ~file.ok THEN [status |-> "Error"]
    ELSE [status |-> "ok",
          doc |-> [filename |-> file.filename, content |-> file.content]]

RECURSIVE LoadDirectoryAborting(_)
\* mutant: load_directory without its try: the first file whose load raises
\* ends the loop
LoadDirectoryAborting(entries) ==
    IF entries = <<>> THEN <<>>
    ELSE IF Lower(Head(entries).ext) \notin SupportedExts
         THEN LoadDirectoryAborting(Tail(entries))
    ELSE IF LoadDocument(Head(entries)).status = "ok"
         THEN <<LoadDocument(Head(entries)).doc>> \o LoadDirectoryAborting(Tail(entries))
    ELSE <<>>

RECURSIVE LoadDirectory(_)
\* DocumentLoader.load_directory: the documents of the files with a supported
\* suffix that load, in directory order; a file whose load raises is reported
\* and skipped
LoadDirectory(entries) ==
    IF entries = <<>> THEN <<>>
    ELSE (IF Lower(Head(entries).ext) \in SupportedExts
             /\ LoadDocument(Head(entries)).status = "ok"
          THEN <<LoadDocument(Head(entries)).doc>>
          ELSE <<>>) \o LoadDirectory(Tail(entries))

\* the default of data.input_folder, and another folder it can be set to
ClientContentFolder == "data/client_content"
OtherFolder == "docs"

\* what a content path can point at
NoSource == [kind |-> "none"]
MissingPath == [kind |-> "missing"]
\* a text file with the suffix ext; FileSource(c) is a .txt file
TextFile(ext, c) == [kind |-> "file", ext |-> ext, content |-> c]
FileSource(c) == TextFile(<<".", "t", "x", "t">>, c)
DirSource(entries) == [kind |-> "dir", entries |-> entries]

\* the content paths build() is run on: a path that is not there, a content
\* file, an empty directory and a directory whose only file does not load
\* (the aggregation of the documents of a directory is chunked on its own)
ContentSources ==
    { MissingPath }
      \cup { FileSource(c) : c \in BuildContents }
      \cup { DirSource(<<>>),
              DirSource(<<DirEntry(<<"p">>, <<"a", "b">>, FALSE)>>) }

\* the document lists whose aggregation is chunked: two documents, the second
\* with trailing whitespace; a longer first document
DocumentLists ==
    { << [filename |-> <<"m">>, content |-> <<"a">>],
         [filename |-> <<"q">>, content |-> <<"x", NL>>] >>,
      << [filename |-> <<"m">>, content |-> <<"a", "b", "c", "d">>],
         [filename |-> <<"q">>, content |-> <<"x", "y">>] >> }

\* whether load_content returns a content for the source
HasContent(src) ==
    \/ src.kind = "file"
    \/ src.kind = "dir" /\ LoadDirectory(src.entries) # <<>>

\* load_content(content_path)
LoadContent(src) ==
    IF src.kind = "file" THEN src.content
    ELSE AggregateDocuments(LoadDirectory(src.entries))

\* the queries retrieve is called with
Queries == { <<"a", "b">>, <<"x", "y">> }

NoResult == [status |-> "none"]

\* input() as run_interactive sees it: a line typed, or an exception raised
Line(s) == [kind |-> "line", text |-> s]

Raised(e) == [kind |-> e]

\* run_interactive has not prompted yet
ReplIdle ==
    /\ ri_pc = "prompt" /\ ri_event = Raised("none") /\ ri_raised = "none"
    /\ ri_chats = 0 /\ ri_reported = 0 /\ ri_prompts = 0

\* the app has just started: nothing cached, nothing built or asked
AppIdle ==
    /\ app_cache = "empty" /\ app_loaded_at = 0 /\ app_built = 0
    /\ app_queries = 0 /\ app_answer = <<>>

\* the default configuration over an empty data directory; load_document
\* has not been called
DataIdle ==
    /\ d_content_file = MissingPath
    /\ d_input_folder = ClientContentFolder
    /\ d_client_content = <<>> /\ d_folder = <<>> /\ d_saved = <<>>
    /\ ld_file = NoFile /\ ld_result = NoResult
    /\ AppIdle
    /\ ReplIdle

\* chat is not running
ChatIdle ==
    /\ ch_pc = "idle" /\ ch_query = <<>> /\ ch_show_context = FALSE
    /\ ch_retrieved = <<>> /\ ch_context = <<>> /\ ch_sources = <<>>
    /\ ch_calls = 0 /\ ch_exception = <<>> /\ ch_error = "none"
    /\ ch_result = NoResult

\* no build has run, no chatbot exists, no file has been written
PipelineIdle ==
    /\ ChatIdle
    /\ fs_index = Absent /\ fs_chunks = Absent /\ fs_meta = Absent
    /\ b_pc = "idle" /\ b_gen = 0
    /\ b_source = NoSource /\ b_error = "none"
    /\ b_documents = <<>> /\ b_default = FALSE
    /\ DataIdle
    /\ b_content = <<>> /\ b_chunks = <<>> /\ b_embeddings = <<>> /\ b_index = <<>>
    /\ b_result = NoResult
    /\ b_trace = <<>>
    /\ b_fs_at_call = <<Absent, Absent, Absent>>
    /\ c_pc = "none" /\ c_error = "none" /\ c_top_k = 1
    /\ c_index = Absent /\ c_chunks = Absent /\ c_metadata = Absent
    /\ c_retrieved = NoResult
    /\ s_pc = "idle" /\ s_d1 = FZero /\ s_d2 = FZero
    /\ s_score1 = FZero /\ s_score2 = FZero

----------------------------------------------------------------------------
(* chunk_by_sections, step by step *)

\* chunks = []; sections = content.split('=== PAGINA:')
ChunkBegin ==
    /\ pc = "call"
    /\ sections' = Split(content, Marker)
    /\ chunks' = <<>>
    /\ pc' = "for"
    /\ UNCHANGED <<content, arg_chunk_size, arg_chunk_overlap, cfg_chunk_size,
                   cfg_chunk_overlap, chunk_size, chunk_overlap, section_name,
                   section_content, start, part_num>>
    /\ UNCHANGED pipelineVars

\* if not section.strip(): continue
ForSkipBlank ==
    /\ pc = "for" /\ sections # <<>>
    /\ Strip(Head(sections)) = <<>>
    /\ sections' = Tail(sections)
    /\ UNCHANGED <<content, arg_chunk_size, arg_chunk_overlap, cfg_chunk_size,
                   cfg_chunk_overlap, chunk_size, chunk_overlap, section_name,
                   section_content, start, part_num, chunks, pc>>
    /\ UNCHANGED pipelineVars

\* if not section_content: continue
ForSkipEmptyBody ==
    /\ pc = "for" /\ sections # <<>>
    /\ Strip(Head(sections)) # <<>>
    /\ SectionContent(Head(sections)) = <<>>
    /\ section_name' = SectionName(Head(sections))
    /\ section_content' = <<>>
    /\ sections' = Tail(sections)
    /\ UNCHANGED <<content, arg_chunk_size, arg_chunk_overlap, cfg_chunk_size,
                   cfg_chunk_overlap, chunk_size, chunk_overlap, start,
                   part_num, chunks, pc>>
    /\ UNCHANGED pipelineVars

\* if len(section_content) <= self.chunk_size: chunks.append({...})
ForWhole ==
    /\ pc = "for" /\ sections # <<>>
    /\ Strip(Head(sections)) # <<>>
    /\ SectionContent(Head(sections)) # <<>>
    /\ Len(SectionContent(Head(sections))) <= chunk_size
    /\ section_name' = SectionName(Head(sections))
    /\ section_content' = SectionContent(Head(sections))
    /\ chunks' = Append(chunks, Chunk(section_content', section_name'))
    /\ sections' = Tail(sections)
    /\ UNCHANGED <<content, arg_chunk_size, arg_chunk_overlap, cfg_chunk_size,
                   cfg_chunk_overlap, chunk_size, chunk_overlap, start,
                   part_num, pc>>
    /\ UNCHANGED pipelineVars

\* mutant: part_num is not set back to 1 for a new section
ForEnterSplitKeepNum ==
    /\ pc = "for" /\ sections # <<>>
    /\ Strip(Head(sections)) # <<>>
    /\ SectionContent(Head(sections)) # <<>>
    /\ Len(SectionContent(Head(sections))) > chunk_size
    /\ section_name' = SectionName(Head(sections))
    /\ section_content' = SectionContent(Head(sections))
    /\ start' = 0
    /\ pc' = "while"
    /\ UNCHANGED <<content, arg_chunk_size, arg_chunk_overlap, cfg_chunk_size,
                   cfg_chunk_overlap, chunk_size, chunk_overlap, sections,
                   part_num, chunks>>
    /\ UNCHANGED pipelineVars

\* else: start = 0; part_num = 1
ForEnterSplit ==
    /\ pc = "for" /\ sections # <<>>
    /\ Strip(Head(sections)) # <<>>
    /\ SectionContent(Head(sections)) # <<>>
    /\ Len(SectionContent(Head(sections))) > chunk_size
    /\ section_name' = SectionName(Head(sections))
    /\ section_content' = SectionContent(Head(sections))
    /\ start' = 0
    /\ part_num' = 1
    /\ pc' = "while"
    /\ UNCHANGED <<content, arg_chunk_size, arg_chunk_overlap, cfg_chunk_size,
                   cfg_chunk_overlap, chunk_size, chunk_overlap, sections,
                   chunks>>
    /\ UNCHANGED pipelineVars

\* one iteration of: while start < len(section_content)
WhileStep ==
    /\ pc = "while"
    /\ start < Len(section_content)
    /\ (Advance(start) > start \/ part_num <= MaxParts)
    /\ chunks' = Append(chunks, Chunk(ChunkText(section_content, start),
                                      PartLabel(section_name, part_num)))
    /\ start' = Advance(start)
    /\ part_num' = part_num + 1
    /\ UNCHANGED <<content, arg_chunk_size, arg_chunk_overlap, cfg_chunk_size,
                   cfg_chunk_overlap, chunk_size, chunk_overlap, sections,
                   section_name, section_content, pc>>
    /\ UNCHANGED pipelineVars

\* the while condition is false: on to the next section
WhileExit ==
    /\ pc = "while"
    /\ ~(start < Len(section_content))
    /\ sections' = Tail(sections)
    /\ pc' = "for"
    /\ UNCHANGED <<content, arg_chunk_size, arg_chunk_overlap, cfg_chunk_size,
                   cfg_chunk_overlap, chunk_size, chunk_overlap, section_name,
                   section_content, start, part_num, chunks>>
    /\ UNCHANGED pipelineVars

\* return chunks
ChunkReturn ==
    /\ pc = "for" /\ sections = <<>>
    /\ pc' = "done"
    /\ UNCHANGED <<content, arg_chunk_size, arg_chunk_overlap, cfg_chunk_size,
                   cfg_chunk_overlap, chunk_size, chunk_overlap, sections,
                   section_name, section_content, start, part_num, chunks>>
    /\ UNCHANGED pipelineVars

\* an indexer constructed with any arguments over any config.yaml, about to
\* chunk any of the enumerated contents or an aggregation of documents
InitChunk ==
    /\ content \in Contents(MaxSections) \cup { AggregateDocuments(d) : d \in DocumentLists }
    /\ arg_chunk_size \in OptInt
    /\ arg_chunk_overlap \in OptInt
    /\ \E c \in ConfigChoices : cfg_chunk_size = c[1] /\ cfg_chunk_overlap = c[2]
    /\ chunk_size = InitChunkSize(arg_chunk_size, cfg_chunk_size)
    /\ chunk_overlap = InitChunkOverlap(arg_chunk_overlap, cfg_chunk_overlap)
    /\ sections = <<>>
    /\ section_name = <<>>
    /\ section_content = <<>>
    /\ start = 0
    /\ part_num = 1
    /\ chunks = <<>>
    /\ pc = "call"
    /\ PipelineIdle

NextChunk ==
    \/ ChunkBegin
    \/ ForSkipBlank
    \/ ForSkipEmptyBody
    \/ ForWhole
    \/ ForEnterSplit
    \/ WhileStep
    \/ WhileExit
    \/ ChunkReturn

SpecChunk == InitChunk /\ [][NextChunk]_vars

----------------------------------------------------------------------------
(* LocalEmbeddingIndexer.build and save_index *)

\* texts = [c['text'] for c in chunks]
Texts(chs) == [i \in 1..Len(chs) |-> chs[i].text]

\* mutant: the vectors come out in the opposite order to the texts
GenerateEmbeddingsReversed(texts) ==
    [i \in 1..Len(texts) |-> Encode(texts[Len(texts) - i + 1])]

\* generate_embeddings(texts): one vector per text, in order
GenerateEmbeddings(texts) == [i \in 1..Len(texts) |-> Encode(texts[i])]

\* mutant: create_faiss_index adds the vectors to the index already on disk
CreateFaissIndexOnto(embeddings) ==
    (IF fs_index.state = "full" THEN fs_index.index ELSE <<>>) \o embeddings

\* create_faiss_index(embeddings): an empty IndexFlatL2, then index.add(embeddings)
CreateFaissIndex(embeddings) == <<>> \o embeddings

\* the metadata dict of save_index
Metadata(chs) ==
    [ total_chunks        |-> Len(chs),
      embedding_dimension |-> EmbeddingDim,
      model_name          |-> ModelName,
      chunk_size          |-> chunk_size,
      chunk_overlap       |-> chunk_overlap,
      sections            |-> { chs[i].section : i \in 1..Len(chs) } ]

\* the dict build returns
BuildResult(chs, idx) ==
    [ status              |-> "ok",
      total_chunks        |-> Len(chs),
      embedding_dimension |-> EmbeddingDim,
      index_size          |-> Len(idx) ]

\* the positions of a build() invocation that has neither returned nor raised
BuildRunning ==
    { "load", "chunk", "embed", "index", "save_index", "write_index",
      "save_chunks", "write_chunks", "save_meta", "write_meta", "return" }

\* build() is called, with the content path pointing at one of the sources
BuildCall ==
    /\ b_pc \in {"idle", "returned", "raised"}
    /\ b_gen < MaxBuilds
    /\ b_gen' = b_gen + 1
    /\ b_source' \in ContentSources
    /\ b_error' = "none"
    /\ b_pc' = "load"
    /\ b_trace' = <<>>
    /\ b_fs_at_call' = files
    /\ b_content' = <<>> /\ b_chunks' = <<>> /\ b_embeddings' = <<>> /\ b_index' = <<>>
    /\ b_result' = NoResult
    /\ b_documents' = <<>>
    /\ b_default' = FALSE
    /\ UNCHANGED <<chunkVars, fileVars, chatVars>>
    /\ UNCHANGED scoreVars
    /\ UNCHANGED callVars
    /\ UNCHANGED dataVars
    /\ UNCHANGED appVars
    /\ UNCHANGED replVars

\* load_content raises FileNotFoundError: the path is neither a file nor a
\* directory, or load_directory returned no document
BuildLoadNotFound ==
    /\ b_pc = "load"
    /\ ~HasContent(b_source)
    /\ b_pc' = "raised"
    /\ b_error' = "FileNotFoundError"
    /\ UNCHANGED <<chunkVars, fileVars, chatVars, scoreVars, b_gen, b_source, b_content,
                   b_chunks, b_embeddings, b_index, b_result, b_trace, b_fs_at_call>>
    /\ UNCHANGED callVars
    /\ UNCHANGED <<b_documents, b_default>>
    /\ UNCHANGED dataVars
    /\ UNCHANGED appVars
    /\ UNCHANGED replVars

\* content = self.load_content(content_path)
BuildLoadContent ==
    /\ b_pc = "load"
    /\ HasContent(b_source)
    /\ b_content' = LoadContent(b_source)
    /\ b_documents' = (IF b_source.kind = "dir" THEN LoadDirectory(b_source.entries) ELSE <<>>)
    /\ b_pc' = "chunk"
    /\ UNCHANGED b_default
    /\ b_trace' = Append(b_trace, "load")
    /\ UNCHANGED <<chunkVars, fileVars, chatVars, b_gen, b_chunks, b_embeddings,
                   b_index, b_result, b_fs_at_call>>
    /\ UNCHANGED scoreVars
    /\ UNCHANGED <<b_source, b_error>>
    /\ UNCHANGED callVars
    /\ UNCHANGED dataVars
    /\ UNCHANGED appVars
    /\ UNCHANGED replVars

\* chunks = self.chunk_by_sections(content)
BuildChunk ==
    /\ b_pc = "chunk"
    /\ b_chunks' = ChunkBySections(b_content)
    /\ b_pc' = "embed"
    /\ b_trace' = Append(b_trace, "chunk")
    /\ UNCHANGED <<chunkVars, fileVars, chatVars, b_gen, b_content, b_embeddings,
                   b_index, b_result, b_fs_at_call>>
    /\ UNCHANGED scoreVars
    /\ UNCHANGED <<b_source, b_error>>
    /\ UNCHANGED callVars
    /\ UNCHANGED <<b_documents, b_default>>
    /\ UNCHANGED dataVars
    /\ UNCHANGED appVars
    /\ UNCHANGED replVars

\* embeddings = self.generate_embeddings(texts)
BuildEmbed ==
    /\ b_pc = "embed"
    /\ b_embeddings' = GenerateEmbeddings(Texts(b_chunks))
    /\ b_pc' = "index"
    /\ b_trace' = Append(b_trace, "embed")
    /\ UNCHANGED <<chunkVars, fileVars, chatVars, b_gen, b_content, b_chunks,
                   b_index, b_result, b_fs_at_call>>
    /\ UNCHANGED scoreVars
    /\ UNCHANGED <<b_source, b_error>>
    /\ UNCHANGED callVars
    /\ UNCHANGED <<b_documents, b_default>>
    /\ UNCHANGED dataVars
    /\ UNCHANGED appVars
    /\ UNCHANGED replVars

\* mutant: create_faiss_index also writes the index file
BuildCreateIndexEager ==
    /\ b_pc = "index"
    /\ b_index' = CreateFaissIndex(b_embeddings)
    /\ fs_index' = IndexFile(b_gen, b_index')
    /\ b_pc' = "save_index"
    /\ b_trace' = Append(b_trace, "index")
    /\ UNCHANGED <<chunkVars, fs_chunks, fs_meta, chatVars, b_gen, b_content, b_chunks,
                   b_embeddings, b_result, b_fs_at_call>>
    /\ UNCHANGED scoreVars
    /\ UNCHANGED <<b_source, b_error>>
    /\ UNCHANGED callVars
    /\ UNCHANGED <<b_documents, b_default>>
    /\ UNCHANGED dataVars
    /\ UNCHANGED appVars
    /\ UNCHANGED replVars

\* index = self.create_faiss_index(embeddings)
BuildCreateIndex ==
    /\ b_pc = "index"
    /\ b_index' = CreateFaissIndex(b_embeddings)
    /\ b_pc' = "save_index"
    /\ b_trace' = Append(b_trace, "index")
    /\ UNCHANGED <<chunkVars, fileVars, chatVars, b_gen, b_content, b_chunks,
                   b_embeddings, b_result, b_fs_at_call>>
    /\ UNCHANGED scoreVars
    /\ UNCHANGED <<b_source, b_error>>
    /\ UNCHANGED callVars
    /\ UNCHANGED <<b_documents, b_default>>
    /\ UNCHANGED dataVars
    /\ UNCHANGED appVars
    /\ UNCHANGED replVars

\* save_index: faiss.write_index opens (truncates) the index file
SaveIndexOpen ==
    /\ b_pc = "save_index"
    /\ fs_index' = Partial
    /\ b_pc' = "write_index"
    /\ UNCHANGED <<chunkVars, fs_chunks, fs_meta, chatVars, b_gen, b_content, b_chunks,
                   b_embeddings, b_index, b_result, b_trace, b_fs_at_call>>
    /\ UNCHANGED scoreVars
    /\ UNCHANGED <<b_source, b_error>>
    /\ UNCHANGED callVars
    /\ UNCHANGED <<b_documents, b_default>>
    /\ UNCHANGED dataVars
    /\ UNCHANGED appVars
    /\ UNCHANGED replVars

\* save_index: faiss.write_index has written the index file
SaveIndexWrite ==
    /\ b_pc = "write_index"
    /\ fs_index' = IndexFile(b_gen, b_index)
    /\ b_pc' = "save_chunks"
    /\ UNCHANGED <<chunkVars, fs_chunks, fs_meta, chatVars, b_gen, b_content, b_chunks,
                   b_embeddings, b_index, b_result, b_trace, b_fs_at_call>>
    /\ UNCHANGED scoreVars
    /\ UNCHANGED <<b_source, b_error>>
    /\ UNCHANGED callVars
    /\ UNCHANGED <<b_documents, b_default>>
    /\ UNCHANGED dataVars
    /\ UNCHANGED appVars
    /\ UNCHANGED replVars

\* save_index: open(Config.CHUNKS_FILE, 'wb') truncates the chunk file
SaveChunksOpen ==
    /\ b_pc = "save_chunks"
    /\ fs_chunks' = Partial
    /\ b_pc' = "write_chunks"
    /\ UNCHANGED <<chunkVars, fs_index, fs_meta, chatVars, b_gen, b_content, b_chunks,
                   b_embeddings, b_index, b_result, b_trace, b_fs_at_call>>
    /\ UNCHANGED scoreVars
    /\ UNCHANGED <<b_source, b_error>>
    /\ UNCHANGED callVars
    /\ UNCHANGED <<b_documents, b_default>>
    /\ UNCHANGED dataVars
    /\ UNCHANGED appVars
    /\ UNCHANGED replVars

\* save_index: pickle.dump(chunks, f)
SaveChunksDump ==
    /\ b_pc = "write_chunks"
    /\ fs_chunks' = ChunksFile(b_gen, b_chunks)
    /\ b_pc' = "save_meta"
    /\ UNCHANGED <<chunkVars, fs_index, fs_meta, chatVars, b_gen, b_content, b_chunks,
                   b_embeddings, b_index, b_result, b_trace, b_fs_at_call>>
    /\ UNCHANGED scoreVars
    /\ UNCHANGED <<b_source, b_error>>
    /\ UNCHANGED callVars
    /\ UNCHANGED <<b_documents, b_default>>
    /\ UNCHANGED dataVars
    /\ UNCHANGED appVars
    /\ UNCHANGED replVars

\* save_index: open(Config.METADATA_FILE, 'w') truncates the metadata file
SaveMetaOpen ==
    /\ b_pc = "save_meta"
    /\ fs_meta' = Partial
    /\ b_pc' = "write_meta"
    /\ UNCHANGED <<chunkVars, fs_index, fs_chunks, chatVars, b_gen, b_content, b_chunks,
                   b_embeddings, b_index, b_result, b_trace, b_fs_at_call>>
    /\ UNCHANGED scoreVars
    /\ UNCHANGED <<b_source, b_error>>
    /\ UNCHANGED callVars
    /\ UNCHANGED <<b_documents, b_default>>
    /\ UNCHANGED dataVars
    /\ UNCHANGED appVars
    /\ UNCHANGED replVars

\* save_index: json.dump(metadata, f)
SaveMetaDump ==
    /\ b_pc = "write_meta"
    /\ fs_meta' = MetaFile(b_gen, Metadata(b_chunks))
    /\ b_pc' = "return"
    /\ b_trace' = Append(b_trace, "persist")
    /\ UNCHANGED <<chunkVars, fs_index, fs_chunks, chatVars, b_gen, b_content, b_chunks,
                   b_embeddings, b_index, b_result, b_fs_at_call>>
    /\ UNCHANGED scoreVars
    /\ UNCHANGED <<b_source, b_error>>
    /\ UNCHANGED callVars
    /\ UNCHANGED <<b_documents, b_default>>
    /\ UNCHANGED dataVars
    /\ UNCHANGED appVars
    /\ UNCHANGED replVars

\* return {...}
BuildReturn ==
    /\ b_pc = "return"
    /\ b_result' = BuildResult(b_chunks, b_index)
    /\ b_pc' = "returned"
    /\ UNCHANGED <<chunkVars, fileVars, chatVars, b_gen, b_content, b_chunks,
                   b_embeddings, b_index, b_trace, b_fs_at_call>>
    /\ UNCHANGED scoreVars
    /\ UNCHANGED <<b_source, b_error>>
    /\ UNCHANGED callVars
    /\ UNCHANGED <<b_documents, b_default>>
    /\ UNCHANGED dataVars
    /\ UNCHANGED appVars
    /\ UNCHANGED replVars

\* the step build() is at raises (reading, encoding, writing), or the process
\* is interrupted there; build has no try/except, so nothing more of it runs
BuildRaise ==
    /\ b_pc \in BuildRunning
    /\ b_pc = "load" => HasContent(b_source)
    /\ b_pc' = "raised"
    /\ b_error' = "Error"
    /\ UNCHANGED b_source
    /\ UNCHANGED <<chunkVars, fileVars, chatVars, b_gen, b_content, b_chunks,
                   b_embeddings, b_index, b_result, b_trace, b_fs_at_call>>
    /\ UNCHANGED scoreVars
    /\ UNCHANGED callVars
    /\ UNCHANGED <<b_documents, b_default>>
    /\ UNCHANGED dataVars
    /\ UNCHANGED appVars
    /\ UNCHANGED replVars

----------------------------------------------------------------------------
(* RAGChatbot.__init__, load_index and retrieve *)

\* mutant: the reciprocal is forgotten
ScoreUninverted(distance) == FAddOne(distance)

\* similarity = 1 / (1 + distance) in floating point: the sum is rounded, then
\* the quotient
Score(distance) == FRecip(FAddOne(distance))

\* mutant: the rank is the 0-based position
RankZeroBased(idx) == idx

\* 'rank': idx + 1
Rank(idx) == idx + 1

\* the dict retrieve appends for one hit
Result(chunk, distance, idx) ==
    [ text     |-> chunk.text,
      section  |-> chunk.section,
      source   |-> chunk.source,
      score    |-> Score(ToFloat(distance)),
      distance |-> distance,
      rank     |-> Rank(idx) ]

RECURSIVE RetrieveLoop(_, _, _, _)
\* the for loop of retrieve from the i-th hit on (Python's idx is i - 1);
\* self.chunks[chunk_idx] raises IndexError for an id past the list
RetrieveLoop(hits, chs, i, acc) ==
    IF i > Len(hits) THEN [status |-> "ok", results |-> acc, hits |-> hits]
    ELSE IF hits[i].id = -1 THEN RetrieveLoop(hits, chs, i + 1, acc)
    ELSE IF hits[i].id >= Len(chs) THEN [status |-> "IndexError", hits |-> hits]
    ELSE RetrieveLoop(hits, chs, i + 1,
                      Append(acc, Result(chs[hits[i].id + 1], hits[i].distance, i - 1)))

\* RAGChatbot(...) is constructed (again, when the process or its cache restarts)
ChatbotInit ==
    /\ c_pc \in {"none", "ready", "failed"}
    /\ c_top_k' \in 1..MaxTopK
    /\ c_index' = Absent /\ c_chunks' = Absent /\ c_metadata' = Absent
    /\ c_retrieved' = NoResult
    /\ c_pc' = "load"
    /\ c_error' = "none"
    /\ UNCHANGED <<chunkVars, fileVars, buildVars>>
    /\ UNCHANGED scoreVars
    /\ UNCHANGED callVars
    /\ UNCHANGED dataVars
    /\ UNCHANGED appVars
    /\ UNCHANGED replVars

\* load_index: the index file does not exist, FileNotFoundError
LoadIndexMissing ==
    /\ c_pc = "load"
    /\ fs_index.state = "absent"
    /\ c_pc' = "failed"
    /\ c_error' = "FileNotFoundError"
    /\ UNCHANGED <<chunkVars, fileVars, buildVars, c_top_k, c_index, c_chunks,
                   c_metadata, c_retrieved>>
    /\ UNCHANGED scoreVars
    /\ UNCHANGED callVars
    /\ UNCHANGED dataVars
    /\ UNCHANGED appVars
    /\ UNCHANGED replVars

\* load_index: Config.FAISS_INDEX_FILE.exists()
LoadIndexExists ==
    /\ c_pc = "load"
    /\ fs_index.state # "absent"
    /\ c_pc' = "read_index"
    /\ UNCHANGED <<chunkVars, fileVars, buildVars, c_top_k, c_index, c_chunks,
                   c_metadata, c_retrieved>>
    /\ UNCHANGED scoreVars
    /\ UNCHANGED c_error
    /\ UNCHANGED callVars
    /\ UNCHANGED dataVars
    /\ UNCHANGED appVars
    /\ UNCHANGED replVars

\* self.index = faiss.read_index(...)
LoadReadIndex ==
    /\ c_pc = "read_index"
    /\ fs_index.state = "full"
    /\ c_index' = fs_index
    /\ c_pc' = "read_chunks"
    /\ UNCHANGED <<chunkVars, fileVars, buildVars, c_top_k, c_chunks, c_metadata,
                   c_retrieved>>
    /\ UNCHANGED scoreVars
    /\ UNCHANGED c_error
    /\ UNCHANGED callVars
    /\ UNCHANGED dataVars
    /\ UNCHANGED appVars
    /\ UNCHANGED replVars

\* faiss.read_index raises its RuntimeError on a file not written in full
LoadReadIndexFail ==
    /\ c_pc = "read_index"
    /\ fs_index.state # "full"
    /\ c_pc' = "failed"
    /\ c_error' = "RuntimeError"
    /\ UNCHANGED <<chunkVars, fileVars, buildVars, c_top_k, c_index, c_chunks,
                   c_metadata, c_retrieved>>
    /\ UNCHANGED scoreVars
    /\ UNCHANGED callVars
    /\ UNCHANGED dataVars
    /\ UNCHANGED appVars
    /\ UNCHANGED replVars

\* self.chunks = pickle.load(f)
LoadReadChunks ==
    /\ c_pc = "read_chunks"
    /\ fs_chunks.state = "full"
    /\ c_chunks' = fs_chunks
    /\ c_pc' = "read_metadata"
    /\ UNCHANGED <<chunkVars, fileVars, buildVars, c_top_k, c_index, c_metadata,
                   c_retrieved>>
    /\ UNCHANGED scoreVars
    /\ UNCHANGED c_error
    /\ UNCHANGED callVars
    /\ UNCHANGED dataVars
    /\ UNCHANGED appVars
    /\ UNCHANGED replVars

\* open raises FileNotFoundError on a missing chunk file, pickle.load its
\* EOFError on a truncated one
LoadReadChunksFail ==
    /\ c_pc = "read_chunks"
    /\ fs_chunks.state # "full"
    /\ c_pc' = "failed"
    /\ c_error' = (IF fs_chunks.state = "absent" THEN "FileNotFoundError" ELSE "EOFError")
    /\ UNCHANGED <<chunkVars, fileVars, buildVars, c_top_k, c_index, c_chunks,
                   c_metadata, c_retrieved>>
    /\ UNCHANGED scoreVars
    /\ UNCHANGED callVars
    /\ UNCHANGED dataVars
    /\ UNCHANGED appVars
    /\ UNCHANGED replVars

\* self.metadata = json.load(f); load_index and __init__ return
LoadReadMetadata ==
    /\ c_pc = "read_metadata"
    /\ fs_meta.state = "full"
    /\ c_metadata' = fs_meta
    /\ c_pc' = "ready"
    /\ UNCHANGED <<chunkVars, fileVars, buildVars, c_top_k, c_index, c_chunks,
                   c_retrieved>>
    /\ UNCHANGED scoreVars
    /\ UNCHANGED c_error
    /\ UNCHANGED callVars
    /\ UNCHANGED dataVars
    /\ UNCHANGED appVars
    /\ UNCHANGED replVars

\* open raises FileNotFoundError on a missing metadata file, json.load its
\* JSONDecodeError on a truncated one
LoadReadMetadataFail ==
    /\ c_pc = "read_metadata"
    /\ fs_meta.state # "full"
    /\ c_pc' = "failed"
    /\ c_error' = (IF fs_meta.state = "absent" THEN "FileNotFoundError" ELSE "JSONDecodeError")
    /\ UNCHANGED <<chunkVars, fileVars, buildVars, c_top_k, c_index, c_chunks,
                   c_metadata, c_retrieved>>
    /\ UNCHANGED scoreVars
    /\ UNCHANGED callVars
    /\ UNCHANGED dataVars
    /\ UNCHANGED appVars
    /\ UNCHANGED replVars

\* retrieve(query)
Retrieve ==
    /\ c_pc = "ready"
    /\ \E q \in Queries :
         \E hits \in SearchResults(c_index.index, Encode(q), c_top_k) :
            c_retrieved' = RetrieveLoop(hits, c_chunks.chunks, 1, <<>>)
    /\ UNCHANGED <<chunkVars, fileVars, buildVars, c_pc, c_top_k, c_index, c_chunks,
                   c_metadata>>
    /\ UNCHANGED scoreVars
    /\ UNCHANGED c_error
    /\ UNCHANGED callVars
    /\ UNCHANGED dataVars
    /\ UNCHANGED appVars
    /\ UNCHANGED replVars

----------------------------------------------------------------------------
(* The score of retrieve applied to two distances of a search answer *)

\* two results of retrieve are given the scores of their distances
ScoreResults ==
    /\ s_pc = "call"
    /\ s_score1' = Score(s_d1)
    /\ s_score2' = Score(s_d2)
    /\ s_pc' = "scored"
    /\ UNCHANGED <<chunkVars, fileVars, buildVars, chatVars, callVars, dataVars, appVars,
                   replVars, s_d1, s_d2>>

InitScore ==
    /\ content = <<>> /\ arg_chunk_size = <<>> /\ arg_chunk_overlap = <<>>
    /\ \E c \in ConfigChoices : cfg_chunk_size = c[1] /\ cfg_chunk_overlap = c[2]
    /\ chunk_size = InitChunkSize(arg_chunk_size, cfg_chunk_size)
    /\ chunk_overlap = InitChunkOverlap(arg_chunk_overlap, cfg_chunk_overlap)
    /\ sections = <<>> /\ section_name = <<>> /\ section_content = <<>>
    /\ start = 0 /\ part_num = 1 /\ chunks = <<>> /\ pc = "idle"
    /\ fs_index = Absent /\ fs_chunks = Absent /\ fs_meta = Absent
    /\ b_pc = "idle" /\ b_gen = 0
    /\ b_source = NoSource /\ b_error = "none"
    /\ b_documents = <<>> /\ b_default = FALSE
    /\ DataIdle
    /\ b_content = <<>> /\ b_chunks = <<>> /\ b_embeddings = <<>> /\ b_index = <<>>
    /\ b_result = NoResult /\ b_trace = <<>>
    /\ b_fs_at_call = <<Absent, Absent, Absent>>
    /\ c_pc = "none" /\ c_error = "none" /\ c_top_k = 1
    /\ c_index = Absent /\ c_chunks = Absent /\ c_metadata = Absent
    /\ c_retrieved = NoResult
    /\ ChatIdle
    /\ s_pc = "call" /\ s_d1 \in Distances /\ s_d2 \in Distances
    /\ s_score1 = FZero /\ s_score2 = FZero

NextScore == ScoreResults

SpecScore == InitScore /\ [][NextScore]_vars

\* an indexer constructed with its defaults over a config.yaml, no file
\* written yet, no chatbot
Init ==
    /\ content = <<>>
    /\ arg_chunk_size = <<>>
    /\ arg_chunk_overlap = <<>>
    /\ \E c \in ConfigChoices : cfg_chunk_size = c[1] /\ cfg_chunk_overlap = c[2]
    /\ chunk_size = InitChunkSize(arg_chunk_size, cfg_chunk_size)
    /\ chunk_overlap = InitChunkOverlap(arg_chunk_overlap, cfg_chunk_overlap)
    /\ sections = <<>>
    /\ section_name = <<>>
    /\ section_content = <<>>
    /\ start = 0
    /\ part_num = 1
    /\ chunks = <<>>
    /\ pc = "idle"
    /\ PipelineIdle

Next ==
    \/ BuildCall
    \/ BuildLoadNotFound
    \/ BuildLoadContent
    \/ BuildChunk
    \/ BuildEmbed
    \/ BuildCreateIndex
    \/ SaveIndexOpen
    \/ SaveIndexWrite
    \/ SaveChunksOpen
    \/ SaveChunksDump
    \/ SaveMetaOpen
    \/ SaveMetaDump
    \/ BuildReturn
    \/ BuildRaise
    \/ ChatbotInit
    \/ LoadIndexMissing
    \/ LoadIndexExists
    \/ LoadReadIndex
    \/ LoadReadIndexFail
    \/ LoadReadChunks
    \/ LoadReadChunksFail
    \/ LoadReadMetadata
    \/ LoadReadMetadataFail
    \/ Retrieve

Spec == Init /\ [][Next]_vars

----------------------------------------------------------------------------
(* format_context and chat *)

\* "No relevant content found."
NoContentText == 
    <<"N", "o", " ", "r", "e", "l", "e", "v", "a", "n", "t", " ", "c", "o", "n", "t", "e", "n", "t">> \o
    <<" ", "f", "o", "u", "n", "d", ".">>

\* "[Section: "
SectionOpen == <<"[", "S", "e", "c", "t", "i", "o", "n", ":", " ">>

\* "\n---\n"
Separator == <<NL, "-", "-", "-", NL>>

\* "Error communicating with service: "
ErrorPrefix == 
    <<"E", "r", "r", "o", "r", " ", "c", "o", "m", "m", "u", "n", "i", "c", "a", "t", "i", "n", "g", " ">> \o
    <<"w", "i", "t", "h", " ", "s", "e", "r", "v", "i", "c", "e", ":", " ">>

RECURSIVE SourcesOfEvery(_, _)
\* mutant: the loop appends the section of every result
SourcesOfEvery(results, acc) ==
    IF results = <<>> THEN acc
    ELSE SourcesOfEvery(Tail(results), Append(acc, Head(results).section))

RECURSIVE SourcesOf(_, _)
\* the loop's sources: the section of each result, appended when not yet in the list
SourcesOf(results, acc) ==
    IF results = <<>> THEN acc
    ELSE LET section == Head(results).section
         IN  SourcesOf(Tail(results),
                       IF \E i \in 1..Len(acc) : acc[i] = section THEN acc
                       ELSE Append(acc, section))

\* f"[Section: {section}]\n{text}\n"
ContextPart(result) ==
    SectionOpen \o result.section \o <<"]", NL>> \o result.text \o <<NL>>

ContextParts(results) == [i \in 1..Len(results) |-> ContextPart(results[i])]

\* mutant: format_context without its test for an empty list
FormatContextUnchecked(results) ==
    <<Join(ContextParts(results), Separator), SourcesOf(results, <<>>)>>

\* format_context(results): the pair (formatted_context, sources)
FormatContext(results) ==
    IF results = <<>> THEN <<NoContentText, <<>>>>
    ELSE <<Join(ContextParts(results), Separator), SourcesOf(results, <<>>)>>

\* the texts response.choices[0].message.content may hold
Answers == { <<"o", "k">>, <<"n", "o">> }

\* str(e) of the exceptions the completion call may raise
ErrorMessages == { <<>>, <<"t", "i", "m", "e", "o", "u", "t">> }

\* the dict chat returns after the completion call
ChatResult(answer, sources, query, show_context, context, retrieved) ==
    IF show_context
    THEN [ answer |-> answer, sources |-> sources, query |-> query,
           context |-> context, retrieved_chunks |-> retrieved ]
    ELSE [ answer |-> answer, sources |-> sources, query |-> query ]

\* the dict chat returns from its except clause
ErrorResult(query, e) ==
    [ answer  |-> ErrorPrefix \o e,
      sources |-> <<>>,
      query   |-> query,
      error   |-> e ]

\* chat(query, show_context) is called on a constructed chatbot
ChatCall ==
    /\ c_pc = "ready"
    /\ ch_pc \in {"idle", "returned", "raised"}
    /\ ch_query' \in Queries
    /\ ch_show_context' \in BOOLEAN
    /\ ch_pc' = "retrieve"
    /\ ch_retrieved' = <<>> /\ ch_context' = <<>> /\ ch_sources' = <<>>
    /\ ch_calls' = 0 /\ ch_exception' = <<>> /\ ch_error' = "none"
    /\ ch_result' = NoResult
    /\ UNCHANGED <<chunkVars, fileVars, buildVars, chatVars, scoreVars>>
    /\ UNCHANGED dataVars
    /\ UNCHANGED appVars
    /\ UNCHANGED replVars

\* retrieved = self.retrieve(query)
ChatRetrieve ==
    /\ ch_pc = "retrieve"
    /\ \E hits \in SearchResults(c_index.index, Encode(ch_query), c_top_k) :
          LET r == RetrieveLoop(hits, c_chunks.chunks, 1, <<>>)
          IN  /\ r.status = "ok"
              /\ ch_retrieved' = r.results
    /\ ch_pc' = "format"
    /\ UNCHANGED <<chunkVars, fileVars, buildVars, chatVars, scoreVars, ch_query,
                   ch_show_context, ch_context, ch_sources, ch_calls, ch_exception,
                   ch_error, ch_result>>
    /\ UNCHANGED dataVars
    /\ UNCHANGED appVars
    /\ UNCHANGED replVars

\* mutant: the try block of chat begins before the call of retrieve
ChatRetrieveIndexErrorCaught ==
    /\ ch_pc = "retrieve"
    /\ \E hits \in SearchResults(c_index.index, Encode(ch_query), c_top_k) :
          RetrieveLoop(hits, c_chunks.chunks, 1, <<>>).status = "IndexError"
    /\ ch_error' = "IndexError"
    /\ ch_result' = ErrorResult(ch_query, <<>>)
    /\ ch_pc' = "returned"
    /\ UNCHANGED <<chunkVars, fileVars, buildVars, chatVars, scoreVars, ch_query,
                   ch_show_context, ch_retrieved, ch_context, ch_sources, ch_calls,
                   ch_exception>>
    /\ UNCHANGED dataVars
    /\ UNCHANGED appVars
    /\ UNCHANGED replVars

\* self.retrieve(query) raises: self.chunks[chunk_idx] with an id past the list
ChatRetrieveIndexError ==
    /\ ch_pc = "retrieve"
    /\ \E hits \in SearchResults(c_index.index, Encode(ch_query), c_top_k) :
          RetrieveLoop(hits, c_chunks.chunks, 1, <<>>).status = "IndexError"
    /\ ch_error' = "IndexError"
    /\ ch_pc' = "raised"
    /\ UNCHANGED <<chunkVars, fileVars, buildVars, chatVars, scoreVars, ch_query,
                   ch_show_context, ch_retrieved, ch_context, ch_sources, ch_calls,
                   ch_exception, ch_result>>
    /\ UNCHANGED dataVars
    /\ UNCHANGED appVars
    /\ UNCHANGED replVars

\* self.retrieve(query) raises: embed_query or self.index.search fails
ChatRetrieveRaise ==
    /\ ch_pc = "retrieve"
    /\ ch_error' \in {"EmbeddingError", "SearchError"}
    /\ ch_pc' = "raised"
    /\ UNCHANGED <<chunkVars, fileVars, buildVars, chatVars, scoreVars, ch_query,
                   ch_show_context, ch_retrieved, ch_context, ch_sources, ch_calls,
                   ch_exception, ch_result>>
    /\ UNCHANGED dataVars
    /\ UNCHANGED appVars
    /\ UNCHANGED replVars

\* context, sources = self.format_context(retrieved)
ChatFormatContext ==
    /\ ch_pc = "format"
    /\ ch_context' = FormatContext(ch_retrieved)[1]
    /\ ch_sources' = FormatContext(ch_retrieved)[2]
    /\ ch_pc' = "llm"
    /\ UNCHANGED <<chunkVars, fileVars, buildVars, chatVars, scoreVars, ch_query,
                   ch_show_context, ch_retrieved, ch_calls, ch_exception, ch_error,
                   ch_result>>
    /\ UNCHANGED dataVars
    /\ UNCHANGED appVars
    /\ UNCHANGED replVars

\* the try block runs through: one completions.create call, the result dict
ChatComplete ==
    /\ ch_pc = "llm"
    /\ ch_calls' = ch_calls + 1
    /\ \E answer \in Answers :
          ch_result' = ChatResult(answer, ch_sources, ch_query, ch_show_context,
                                  ch_context, ch_retrieved)
    /\ ch_pc' = "returned"
    /\ UNCHANGED <<chunkVars, fileVars, buildVars, chatVars, scoreVars, ch_query,
                   ch_show_context, ch_retrieved, ch_context, ch_sources, ch_exception,
                   ch_error>>
    /\ UNCHANGED dataVars
    /\ UNCHANGED appVars
    /\ UNCHANGED replVars

\* mutant: chat has no except clause
ChatCompleteRaisePropagates ==
    /\ ch_pc = "llm"
    /\ ch_calls' = ch_calls + 1
    /\ \E e \in ErrorMessages : ch_exception' = <<e>>
    /\ ch_error' = "Exception"
    /\ ch_pc' = "raised"
    /\ UNCHANGED <<chunkVars, fileVars, buildVars, chatVars, scoreVars, ch_query,
                   ch_show_context, ch_retrieved, ch_context, ch_sources, ch_result>>
    /\ UNCHANGED dataVars
    /\ UNCHANGED appVars
    /\ UNCHANGED replVars

\* mutant: the except clause calls completions.create once more
ChatCompleteRaiseRetry ==
    /\ ch_pc = "llm"
    /\ ch_calls' = ch_calls + 2
    /\ \E e \in ErrorMessages :
          /\ ch_exception' = <<e>>
          /\ ch_result' = ErrorResult(ch_query, e)
    /\ ch_pc' = "returned"
    /\ UNCHANGED <<chunkVars, fileVars, buildVars, chatVars, scoreVars, ch_query,
                   ch_show_context, ch_retrieved, ch_context, ch_sources, ch_error>>
    /\ UNCHANGED dataVars
    /\ UNCHANGED appVars
    /\ UNCHANGED replVars

\* the completions.create call raises: except Exception returns the error dict
ChatCompleteRaise ==
    /\ ch_pc = "llm"
    /\ ch_calls' = ch_calls + 1
    /\ \E e \in ErrorMessages :
          /\ ch_exception' = <<e>>
          /\ ch_result' = ErrorResult(ch_query, e)
    /\ ch_pc' = "returned"
    /\ UNCHANGED <<chunkVars, fileVars, buildVars, chatVars, scoreVars, ch_query,
                   ch_show_context, ch_retrieved, ch_context, ch_sources, ch_error>>
    /\ UNCHANGED dataVars
    /\ UNCHANGED appVars
    /\ UNCHANGED replVars

\* the chunk lists and indexes builds leave: chunks of the content, one
\* vector per chunk
BuiltChunks(c) == ChunkBySections(c)

BuiltIndex(c) == CreateFaissIndex(GenerateEmbeddings(Texts(ChunkBySections(c))))

\* a chatbot constructed over the files builds have left: those of one build,
\* or the index of a second build whose save_index did not get past the index
\* file with the chunks and metadata of the first; no build is running
ChatbotLoaded ==
    /\ content = <<>> /\ arg_chunk_size = <<>> /\ arg_chunk_overlap = <<>>
    /\ \E c \in ConfigChoices : cfg_chunk_size = c[1] /\ cfg_chunk_overlap = c[2]
    /\ chunk_size = InitChunkSize(arg_chunk_size, cfg_chunk_size)
    /\ chunk_overlap = InitChunkOverlap(arg_chunk_overlap, cfg_chunk_overlap)
    /\ sections = <<>> /\ section_name = <<>> /\ section_content = <<>>
    /\ start = 0 /\ part_num = 1 /\ chunks = <<>> /\ pc = "idle"
    /\ \E first \in BuildContents, second \in BuildContents, gi \in 1..2 :
          LET indexed == IF gi = 1 THEN first ELSE second
          IN  /\ fs_index = IndexFile(gi, BuiltIndex(indexed))
              /\ fs_chunks = ChunksFile(1, BuiltChunks(first))
              /\ fs_meta = MetaFile(1, Metadata(BuiltChunks(first)))
    /\ b_pc = "idle" /\ b_gen = 0
    /\ b_source = NoSource /\ b_error = "none"
    /\ b_documents = <<>> /\ b_default = FALSE
    /\ DataIdle
    /\ b_content = <<>> /\ b_chunks = <<>> /\ b_embeddings = <<>> /\ b_index = <<>>
    /\ b_result = NoResult /\ b_trace = <<>>
    /\ b_fs_at_call = <<Absent, Absent, Absent>>
    /\ c_pc = "ready" /\ c_error = "none" /\ c_top_k \in 1..MaxTopK
    /\ c_index = fs_index /\ c_chunks = fs_chunks /\ c_metadata = fs_meta
    /\ c_retrieved = NoResult
    /\ s_pc = "idle" /\ s_d1 = FZero /\ s_d2 = FZero
    /\ s_score1 = FZero /\ s_score2 = FZero

InitChat == ChatbotLoaded /\ ChatIdle

NextChat ==
    \/ ChatCall
    \/ ChatRetrieve
    \/ ChatRetrieveIndexError
    \/ ChatRetrieveRaise
    \/ ChatFormatContext
    \/ ChatComplete
    \/ ChatCompleteRaise

SpecChat == InitChat /\ [][NextChat]_vars

\* the chunks result lists are made of
ResultChunks ==
    { Chunk(<<"a", "b">>, <<"A">>), Chunk(<<"x">>, <<"A">>),
      Chunk(<<"a", "b">>, <<"B">>), Chunk(<<>>, <<"B", " ", "(", "p", ")">>) }

\* the lists retrieve may hand format_context: up to MaxResults results,
\* ranked in order
ResultLists ==
    UNION { { [i \in 1..n |-> Result(f[i], i, i - 1)] : f \in [1..n -> ResultChunks] } :
              n \in 0..MaxResults }

\* format_context is applied to a result list
InitFormat ==
    /\ ChatbotLoaded
    /\ ch_pc = "format" /\ ch_query = <<>> /\ ch_show_context = FALSE
    /\ ch_retrieved \in ResultLists
    /\ ch_context = <<>> /\ ch_sources = <<>>
    /\ ch_calls = 0 /\ ch_exception = <<>> /\ ch_error = "none"
    /\ ch_result = NoResult

NextFormat == ChatFormatContext

SpecFormat == InitFormat /\ [][NextFormat]_vars

----------------------------------------------------------------------------
(* load_document and load_content on files and directories *)

\* the suffixes of the files: supported, supported in upper case, not supported
FileExts == { <<".", "t", "x", "t">>, <<".", "P", "D", "F">>, <<".", "c", "s", "v">> }

\* the files of the directories: m with text 'a', q with text 'x\n'
DirFiles ==
    { DirFile(f[1], ext, f[2], ok) :
        f \in { << <<"m">>, <<"a">> >>, << <<"q">>, <<"x", NL>> >> },
        ext \in FileExts, ok \in BOOLEAN }

\* the listings of a directory of at most n files
Listings(n) == UNION { [1..k -> DirFiles] : k \in 0..n }

\* the paths load_content is given: nothing there, a text file of each
\* suffix, a directory
PathSources ==
    { MissingPath }
      \cup { TextFile(ext, c) : ext \in FileExts, c \in BuildContents }
      \cup { DirSource(l) : l \in Listings(MaxFiles) }

\* DocumentLoader.load_document(file_path) is called
LoadDocumentCall ==
    /\ ld_result = NoResult
    /\ ld_result' = LoadDocument(ld_file)
    /\ UNCHANGED <<chunkVars, fileVars, buildVars, chatVars, scoreVars, callVars,
                   d_content_file, d_input_folder, d_client_content, d_folder, d_saved,
                   ld_file>>
    /\ UNCHANGED appVars
    /\ UNCHANGED replVars

\* build(content_path) has been called on a path and is about to load its
\* content; load_document is about to be called on a file
InitLoad ==
    /\ content = <<>> /\ arg_chunk_size = <<>> /\ arg_chunk_overlap = <<>>
    /\ \E c \in ConfigChoices : cfg_chunk_size = c[1] /\ cfg_chunk_overlap = c[2]
    /\ chunk_size = InitChunkSize(arg_chunk_size, cfg_chunk_size)
    /\ chunk_overlap = InitChunkOverlap(arg_chunk_overlap, cfg_chunk_overlap)
    /\ sections = <<>> /\ section_name = <<>> /\ section_content = <<>>
    /\ start = 0 /\ part_num = 1 /\ chunks = <<>> /\ pc = "idle"
    /\ fs_index = Absent /\ fs_chunks = Absent /\ fs_meta = Absent
    /\ b_pc = "load" /\ b_gen = 1
    /\ b_source \in PathSources /\ b_error = "none"
    /\ b_documents = <<>> /\ b_default = FALSE
    /\ b_content = <<>> /\ b_chunks = <<>> /\ b_embeddings = <<>> /\ b_index = <<>>
    /\ b_result = NoResult /\ b_trace = <<>>
    /\ b_fs_at_call = <<Absent, Absent, Absent>>
    /\ c_pc = "none" /\ c_error = "none" /\ c_top_k = 1
    /\ c_index = Absent /\ c_chunks = Absent /\ c_metadata = Absent
    /\ c_retrieved = NoResult
    /\ s_pc = "idle" /\ s_d1 = FZero /\ s_d2 = FZero
    /\ s_score1 = FZero /\ s_score2 = FZero
    /\ ChatIdle
    /\ d_content_file = MissingPath
    /\ d_input_folder = ClientContentFolder
    /\ d_client_content = <<>> /\ d_folder = <<>> /\ d_saved = <<>>
    /\ ld_file \in DirFiles \cup {NoFile}
    /\ ld_result = NoResult
    /\ AppIdle
    /\ ReplIdle

NextLoad ==
    \/ BuildLoadNotFound
    \/ BuildLoadContent
    \/ LoadDocumentCall

SpecLoad == InitLoad /\ [][NextLoad]_vars

----------------------------------------------------------------------------
(* The admin panel: saving uploaded files, building with the default path *)

\* Config.get_content_path(): data/content.txt when it exists, else the
\* folder data.input_folder names
GetContentPath ==
    IF d_content_file.kind = "file" THEN d_content_file
    ELSE DirSource(IF d_input_folder = ClientContentFolder THEN d_client_content
                   ELSE d_folder)

RECURSIVE SaveInto(_, _)
\* open(save_path, 'wb') in a directory: a file of the same name is
\* overwritten, else the file is new
SaveInto(listing, file) ==
    IF listing = <<>> THEN <<file>>
    ELSE IF Head(listing).filename = file.filename THEN <<file>> \o Tail(listing)
    ELSE <<Head(listing)>> \o SaveInto(Tail(listing), file)

\* the files the uploader hands over: m.txt with one text or another, q.PDF
\* that its loader reads or fails on
Uploads ==
    { DirFile(<<"m">>, <<".", "t", "x", "t">>, <<"a">>, TRUE),
      DirFile(<<"m">>, <<".", "t", "x", "t">>, <<"b">>, TRUE),
      DirFile(<<"q">>, <<".", "P", "D", "F">>, <<"x", NL>>, TRUE),
      DirFile(<<"q">>, <<".", "P", "D", "F">>, <<"x", NL>>, FALSE) }

\* 'Save Files': the uploaded file is written into Config.CLIENT_CONTENT_DIR
SaveFiles ==
    /\ b_pc \in {"idle", "returned", "raised"}
    /\ Len(d_saved) < MaxUploads
    /\ \E file \in Uploads :
          /\ d_client_content' = SaveInto(d_client_content, file)
          /\ d_saved' = Append(d_saved, file)
    /\ UNCHANGED <<chunkVars, fileVars, buildVars, chatVars, scoreVars, callVars,
                   d_content_file, d_input_folder, d_folder, ld_file, ld_result>>
    /\ UNCHANGED appVars
    /\ UNCHANGED replVars

\* 'Build Index': LocalEmbeddingIndexer().build() with no content_path
BuildDefault ==
    /\ b_pc \in {"idle", "returned", "raised"}
    /\ b_gen < MaxBuilds
    /\ b_gen' = b_gen + 1
    /\ b_source' = GetContentPath
    /\ b_default' = TRUE
    /\ b_error' = "none"
    /\ b_pc' = "load"
    /\ b_trace' = <<>>
    /\ b_fs_at_call' = files
    /\ b_content' = <<>> /\ b_chunks' = <<>> /\ b_embeddings' = <<>> /\ b_index' = <<>>
    /\ b_result' = NoResult
    /\ b_documents' = <<>>
    /\ UNCHANGED <<chunkVars, fileVars, chatVars, scoreVars, callVars, dataVars>>
    /\ UNCHANGED appVars
    /\ UNCHANGED replVars

\* the app starts over a data directory: content.txt there or not,
\* data.input_folder the default or another folder, either folder empty or
\* holding a file
InitData ==
    /\ content = <<>> /\ arg_chunk_size = <<>> /\ arg_chunk_overlap = <<>>
    /\ \E c \in ConfigChoices : cfg_chunk_size = c[1] /\ cfg_chunk_overlap = c[2]
    /\ chunk_size = InitChunkSize(arg_chunk_size, cfg_chunk_size)
    /\ chunk_overlap = InitChunkOverlap(arg_chunk_overlap, cfg_chunk_overlap)
    /\ sections = <<>> /\ section_name = <<>> /\ section_content = <<>>
    /\ start = 0 /\ part_num = 1 /\ chunks = <<>> /\ pc = "idle"
    /\ fs_index = Absent /\ fs_chunks = Absent /\ fs_meta = Absent
    /\ b_pc = "idle" /\ b_gen = 0
    /\ b_source = NoSource /\ b_error = "none"
    /\ b_documents = <<>> /\ b_default = FALSE
    /\ b_content = <<>> /\ b_chunks = <<>> /\ b_embeddings = <<>> /\ b_index = <<>>
    /\ b_result = NoResult /\ b_trace = <<>>
    /\ b_fs_at_call = <<Absent, Absent, Absent>>
    /\ c_pc = "none" /\ c_error = "none" /\ c_top_k = 1
    /\ c_index = Absent /\ c_chunks = Absent /\ c_metadata = Absent
    /\ c_retrieved = NoResult
    /\ s_pc = "idle" /\ s_d1 = FZero /\ s_d2 = FZero
    /\ s_score1 = FZero /\ s_score2 = FZero
    /\ ChatIdle
    /\ d_content_file \in { MissingPath, FileSource(<<"o", "l", "d">>) }
    /\ d_input_folder \in { ClientContentFolder, OtherFolder }
    /\ d_client_content \in { <<>>, <<DirFile(<<"k">>, <<".", "t", "x", "t">>, <<"y">>, TRUE)>> }
    /\ d_folder \in { <<>>, <<DirFile(<<"n">>, <<".", "t", "x", "t">>, <<"z">>, TRUE)>> }
    /\ d_saved = <<>>
    /\ ld_file = NoFile /\ ld_result = NoResult
    /\ AppIdle
    /\ ReplIdle

NextData ==
    \/ SaveFiles
    \/ BuildDefault
    \/ BuildLoadNotFound
    \/ BuildLoadContent

SpecData == InitData /\ [][NextData]_vars

(***************************************************************************)
(* The web app: the cached chatbot, the chat page, the build button        *)
(***************************************************************************)

\* load_chatbot under st.cache_resource, called with an empty cache: what
\* RAGChatbot() does over the files as they are.  "chatbot": constructed;
\* "None": FileNotFoundError or ValueError caught and None returned (a
\* json.JSONDecodeError is a ValueError); "raised": any other exception
\* leaves load_chatbot, nothing is cached
LoadChatbot ==
    IF fs_index.state = "absent" THEN "None"
    ELSE IF fs_index.state # "full" THEN "raised"
    ELSE IF fs_chunks.state = "absent" THEN "None"
    ELSE IF fs_chunks.state # "full" THEN "raised"
    ELSE IF fs_meta.state # "full" THEN "None"
    ELSE "chatbot"

\* the files a build that raised can leave behind: as they were, or the index
\* file alone begun or replaced
FilesOfFailedBuild(g, c) ==
    { <<fs_index, fs_chunks, fs_meta>>,
      <<Partial, fs_chunks, fs_meta>>,
      <<IndexFile(g, BuiltIndex(c)), fs_chunks, fs_meta>> }

\* as AppBuild, but a successful build leaves the cache as it is
AppBuildKeepCache ==
    /\ b_pc = "idle"
    /\ b_gen < MaxBuilds
    /\ b_gen' = b_gen + 1
    /\ \E c \in BuildContents :
          \/ /\ fs_index' = IndexFile(b_gen + 1, BuiltIndex(c))
             /\ fs_chunks' = ChunksFile(b_gen + 1, BuiltChunks(c))
             /\ fs_meta' = MetaFile(b_gen + 1, Metadata(BuiltChunks(c)))
             /\ app_built' = b_gen + 1
             /\ UNCHANGED <<app_cache, app_loaded_at, chatVars>>
          \/ /\ \E f \in FilesOfFailedBuild(b_gen + 1, c) :
                    fs_index' = f[1] /\ fs_chunks' = f[2] /\ fs_meta' = f[3]
             /\ UNCHANGED <<app_cache, app_loaded_at, app_built, chatVars>>
    /\ UNCHANGED <<app_queries, app_answer>>
    /\ UNCHANGED <<chunkVars, scoreVars, callVars, dataVars>>
    /\ UNCHANGED <<b_pc, b_source, b_error, b_content, b_chunks, b_embeddings, b_index,
                   b_result, b_trace, b_fs_at_call, b_documents, b_default>>
    /\ UNCHANGED replVars

\* admin_panel, "Build Index" pressed: LocalEmbeddingIndexer().build() runs to
\* its end inside the try.  When it returns, st.cache_resource.clear() empties
\* the cache and the app reruns; when it raises, the except reports the error
\* and the cache is left alone
AppBuild ==
    /\ b_pc = "idle"
    /\ b_gen < MaxBuilds
    /\ b_gen' = b_gen + 1
    /\ \E c \in BuildContents :
          \/ /\ fs_index' = IndexFile(b_gen + 1, BuiltIndex(c))
             /\ fs_chunks' = ChunksFile(b_gen + 1, BuiltChunks(c))
             /\ fs_meta' = MetaFile(b_gen + 1, Metadata(BuiltChunks(c)))
             /\ app_built' = b_gen + 1
             /\ app_cache' = "empty"
             /\ app_loaded_at' = 0
             /\ c_pc' = "none" /\ c_error' = "none"
             /\ c_index' = Absent /\ c_chunks' = Absent /\ c_metadata' = Absent
             /\ UNCHANGED <<c_top_k, c_retrieved>>
          \/ /\ \E f \in FilesOfFailedBuild(b_gen + 1, c) :
                    fs_index' = f[1] /\ fs_chunks' = f[2] /\ fs_meta' = f[3]
             /\ UNCHANGED <<app_cache, app_loaded_at, app_built, chatVars>>
    /\ UNCHANGED <<app_queries, app_answer>>
    /\ UNCHANGED <<chunkVars, scoreVars, callVars, dataVars>>
    /\ UNCHANGED <<b_pc, b_source, b_error, b_content, b_chunks, b_embeddings, b_index,
                   b_result, b_trace, b_fs_at_call, b_documents, b_default>>
    /\ UNCHANGED replVars

\* chat_interface run with a prompt: chatbot = load_chatbot() takes the cached
\* entry, or with an empty cache constructs RAGChatbot() from the files and
\* caches what it returns; with None the page returns before the chat input,
\* otherwise chatbot.chat(prompt) answers
AppChatQuery ==
    /\ b_pc = "idle"
    /\ app_queries < MaxQueries
    /\ app_queries' = app_queries + 1
    /\ IF app_cache # "empty"
         THEN /\ app_answer' = (IF app_cache = "chatbot" THEN <<app_loaded_at>> ELSE <<>>)
              /\ UNCHANGED <<app_cache, app_loaded_at, chatVars>>
         ELSE \/ /\ LoadChatbot = "chatbot"
                 /\ app_cache' = "chatbot"
                 /\ app_loaded_at' = b_gen
                 /\ c_pc' = "ready" /\ c_error' = "none"
                 /\ c_index' = fs_index /\ c_chunks' = fs_chunks /\ c_metadata' = fs_meta
                 /\ app_answer' = <<b_gen>>
                 /\ UNCHANGED <<c_top_k, c_retrieved>>
              \/ /\ LoadChatbot = "None"
                 /\ app_cache' = "None"
                 /\ app_loaded_at' = b_gen
                 /\ app_answer' = <<>>
                 /\ UNCHANGED chatVars
              \/ /\ LoadChatbot = "raised"
                 /\ app_answer' = <<>>
                 /\ UNCHANGED <<app_cache, app_loaded_at, chatVars>>
    /\ UNCHANGED app_built
    /\ UNCHANGED <<chunkVars, fileVars, buildVars, scoreVars, callVars, dataVars>>
    /\ UNCHANGED replVars

InitApp == Init

NextApp ==
    \/ AppBuild
    \/ AppChatQuery

SpecApp == InitApp /\ [][NextApp]_vars

(***************************************************************************)
(* run_interactive: the command-line loop                                  *)
(***************************************************************************)

ExitWords == { <<"e","x","i","t">>, <<"q","u","i","t">> }

HelpWord == <<"h","e","l","p">>

\* the lines typed at the prompt
InputLines ==
    { <<>>, <<" ">>,
      <<"e","x","i","t">>, <<" ","E","x","i","t"," ">>, <<"Q","U","I","T">>,
      <<"e","x","i","t","s">>,
      <<"h","e","l","p">>, <<"H","e","l","p"," ">>,
      <<"h","i">> }

\* query = input(...).strip()
QueryOf(line) == Strip(line)

\* the lines that reach self.chat
IsQuestion(line) ==
    /\ QueryOf(line) # <<>>
    /\ Lower(QueryOf(line)) \notin ExitWords
    /\ Lower(QueryOf(line)) # HelpWord

\* the rest of the program during an iteration of the loop
ReplFrame ==
    /\ ri_prompts' = ri_prompts + 1
    /\ UNCHANGED <<chunkVars, fileVars, buildVars, chatVars, scoreVars, callVars,
                   dataVars, appVars>>

\* input() raises KeyboardInterrupt: goodbye and break
RunInteractiveInputInterrupt ==
    /\ ri_pc = "prompt" /\ ri_prompts < MaxPrompts
    /\ ri_event' = Raised("KeyboardInterrupt")
    /\ ri_raised' = "KeyboardInterrupt"
    /\ ri_pc' = "left"
    /\ UNCHANGED <<ri_chats, ri_reported>>
    /\ ReplFrame

\* input() raises an Exception (EOFError on a closed stdin): printed, next turn
RunInteractiveInputError ==
    /\ ri_pc = "prompt" /\ ri_prompts < MaxPrompts
    /\ ri_event' = Raised("EOFError")
    /\ ri_raised' = "Exception"
    /\ ri_reported' = ri_reported + 1
    /\ UNCHANGED <<ri_pc, ri_chats>>
    /\ ReplFrame

\* if not query: continue
RunInteractiveEmpty ==
    /\ ri_pc = "prompt" /\ ri_prompts < MaxPrompts
    /\ \E line \in InputLines :
          /\ QueryOf(line) = <<>>
          /\ ri_event' = Line(line)
    /\ ri_raised' = "none"
    /\ UNCHANGED <<ri_pc, ri_chats, ri_reported>>
    /\ ReplFrame

\* if query.lower() in ['exit', 'quit']: break
RunInteractiveExit ==
    /\ ri_pc = "prompt" /\ ri_prompts < MaxPrompts
    /\ \E line \in InputLines :
          /\ QueryOf(line) # <<>>
          /\ Lower(QueryOf(line)) \in ExitWords
          /\ ri_event' = Line(line)
    /\ ri_raised' = "none"
    /\ ri_pc' = "left"
    /\ UNCHANGED <<ri_chats, ri_reported>>
    /\ ReplFrame

\* if query.lower() == 'help': print the examples, continue
RunInteractiveHelp ==
    /\ ri_pc = "prompt" /\ ri_prompts < MaxPrompts
    /\ \E line \in InputLines :
          /\ QueryOf(line) # <<>>
          /\ Lower(QueryOf(line)) \notin ExitWords
          /\ Lower(QueryOf(line)) = HelpWord
          /\ ri_event' = Line(line)
    /\ ri_raised' = "none"
    /\ UNCHANGED <<ri_pc, ri_chats, ri_reported>>
    /\ ReplFrame

\* result = self.chat(query) returns; answer and sources are printed
RunInteractiveAnswer ==
    /\ ri_pc = "prompt" /\ ri_prompts < MaxPrompts
    /\ \E line \in InputLines : IsQuestion(line) /\ ri_event' = Line(line)
    /\ ri_chats' = ri_chats + 1
    /\ ri_raised' = "none"
    /\ UNCHANGED <<ri_pc, ri_reported>>
    /\ ReplFrame

\* as RunInteractiveChatError, but the error ends the loop
RunInteractiveChatErrorLeaves ==
    /\ ri_pc = "prompt" /\ ri_prompts < MaxPrompts
    /\ \E line \in InputLines : IsQuestion(line) /\ ri_event' = Line(line)
    /\ ri_chats' = ri_chats + 1
    /\ ri_raised' = "Exception"
    /\ ri_reported' = ri_reported + 1
    /\ ri_pc' = "left"
    /\ ReplFrame

\* self.chat(query) raises an Exception (retrieve's, which chat lets
\* through): except Exception prints it, the while loop goes on
RunInteractiveChatError ==
    /\ ri_pc = "prompt" /\ ri_prompts < MaxPrompts
    /\ \E line \in InputLines : IsQuestion(line) /\ ri_event' = Line(line)
    /\ ri_chats' = ri_chats + 1
    /\ ri_raised' = "Exception"
    /\ ri_reported' = ri_reported + 1
    /\ UNCHANGED ri_pc
    /\ ReplFrame

\* KeyboardInterrupt while self.chat(query) runs: goodbye and break
RunInteractiveChatInterrupt ==
    /\ ri_pc = "prompt" /\ ri_prompts < MaxPrompts
    /\ \E line \in InputLines : IsQuestion(line) /\ ri_event' = Line(line)
    /\ ri_chats' = ri_chats + 1
    /\ ri_raised' = "KeyboardInterrupt"
    /\ ri_pc' = "left"
    /\ UNCHANGED ri_reported
    /\ ReplFrame

InitRepl == ChatbotLoaded /\ ChatIdle

NextRepl ==
    \/ RunInteractiveInputInterrupt
    \/ RunInteractiveInputError
    \/ RunInteractiveEmpty
    \/ RunInteractiveExit
    \/ RunInteractiveHelp
    \/ RunInteractiveAnswer
    \/ RunInteractiveChatError
    \/ RunInteractiveChatInterrupt

SpecRepl == InitRepl /\ [][NextRepl]_vars

----------------------------------------------------------------------------
(* Properties of chunk_by_sections *)

\* the precondition of the chunker's contract
ValidConfig == chunk_size >= 1 /\ 0 <= chunk_overlap /\ chunk_overlap < chunk_size

\* the texts of the parts the splitting loop has emitted for the current section
Parts ==
    [i \in 1..(part_num - 1) |-> chunks[Len(chunks) - (part_num - 1) + i].text]

\* the first k characters of s (all of s when it is shorter)
FirstN(s, k) == SubSeq(s, 1, IF k < Len(s) THEN k ELSE Len(s))

\* the last k characters of s (all of s when it is shorter)
LastN(s, k) == SubSeq(s, (IF k < Len(s) THEN Len(s) - k ELSE 0) + 1, Len(s))

\* s without its first k characters
DropN(s, k) == SubSeq(s, k + 1, Len(s))

RECURSIVE Reassemble(_, _)
\* part 1 followed by every later part without its first chunk_overlap characters
Reassemble(parts, n) ==
    IF n = 0 THEN <<>>
    ELSE IF n = 1 THEN parts[1]
    ELSE Reassemble(parts, n - 1) \o DropN(parts[n], chunk_overlap)

\* the splitting loop is about to leave a section it has split
SplitFinished == pc = "while" /\ ~(start < Len(section_content))

\* C1: under a valid configuration every chunk emitted has between 1 and
\* chunk_size characters.
ChunkLengthBound ==
    ValidConfig =>
        \A i \in 1..Len(chunks) :
            Len(chunks[i].text) >= 1 /\ Len(chunks[i].text) <= chunk_size

\* a finished run that emitted a whole section, a full-size part and a short part
ChunkLengthWitness ==
    /\ pc = "done" /\ ValidConfig
    /\ \E i, j \in 1..Len(chunks) :
          /\ Len(chunks[i].text) = chunk_size /\ chunks[i].section = PartLabel(<<"A">>, 1)
          /\ Len(chunks[j].text) < chunk_size /\ chunks[j].section = PartLabel(<<"A">>, 2)
    /\ \E k \in 1..Len(chunks) : chunks[k].section = <<"B">>

\* C2: when a section has been split, part 1 followed by the later parts
\* without their first chunk_overlap characters is the section body.
ChunkCoverage ==
    (ValidConfig /\ SplitFinished) => Reassemble(Parts, part_num - 1) = section_content

\* a split into at least three overlapping parts has finished
ChunkCoverageWitness ==
    ValidConfig /\ SplitFinished /\ chunk_overlap >= 1 /\ part_num - 1 >= 3

\* C3 as stated: every two consecutive parts of a split section, the pair ending
\* in the last part included, share chunk_overlap characters.
OverlapEveryPair ==
    (ValidConfig /\ pc = "while") =>
        \A n \in 1..(part_num - 2) :
            LastN(Parts[n], chunk_overlap) = FirstN(Parts[n + 1], chunk_overlap)

\* C3 as amended: the parts share chunk_overlap characters whenever the earlier
\* part has the full chunk_size; after a shorter part n (which ends the body)
\* part n+1 is what is left of part n from offset chunk_size - chunk_overlap,
\* fewer than chunk_overlap characters.
OverlapAfterFullPart ==
    (ValidConfig /\ pc = "while") =>
        \A n \in 1..(part_num - 2) :
            IF Len(Parts[n]) = chunk_size
            THEN LastN(Parts[n], chunk_overlap) = FirstN(Parts[n + 1], chunk_overlap)
            ELSE /\ Parts[n + 1] = DropN(Parts[n], chunk_size - chunk_overlap)
                 /\ Len(Parts[n + 1]) < chunk_overlap

\* a split whose last two parts are both shorter than chunk_size
OverlapWitness ==
    /\ ValidConfig /\ SplitFinished /\ part_num - 1 >= 3
    /\ Len(Parts[part_num - 2]) < chunk_size
    /\ Len(Parts[part_num - 2]) >= chunk_overlap
    /\ chunk_overlap >= 1

\* what chunk_by_sections has left to do, as a natural number: the sections
\* not yet visited, each weighing more than any body is long, and within the
\* splitting loop the characters of the body from start on
Measure ==
    LET weight == Len(content) + 2
        ahead  == Len(section_content) - start
    IN  CASE pc = "call"  -> weight * weight + 2
          [] pc = "for"   -> Len(sections) * weight + 1
          [] pc = "while" -> (Len(sections) - 1) * weight + 2 + (IF ahead > 0 THEN ahead ELSE 0)
          [] OTHER        -> 0

\* C4: with a valid configuration chunk_by_sections terminates: every step
\* takes Measure, a natural number, down.  With chunk_overlap >= chunk_size
\* the splitting loop, once entered, never moves start forward, never sees
\* its condition false and never leaves.
ChunkTermination ==
    [][ /\ ValidConfig => (Measure' < Measure /\ Measure' >= 0)
        /\ (pc' = "while" /\ chunk_overlap >= chunk_size)
               => start' < Len(section_content')
        /\ (pc = "while" /\ chunk_overlap >= chunk_size)
               => (pc' = "while" /\ start' <= start) ]_vars

\* the loop is still running, without progress, where the model cuts it
NoProgressWitness ==
    /\ pc = "while" /\ chunk_overlap >= chunk_size
    /\ part_num > MaxParts /\ start <= 0

\* the step-by-step chunker returns what ChunkBySections computes
StepwiseAgrees == (pc = "done" /\ ValidConfig) => chunks = ChunkBySections(content)

----------------------------------------------------------------------------
(* Properties of build, save_index, load_index and retrieve *)

AllAbsent == fs_index = Absent /\ fs_chunks = Absent /\ fs_meta = Absent

\* all three files written in full by the same build() invocation
SameBuild ==
    /\ fs_index.state = "full" /\ fs_chunks.state = "full" /\ fs_meta.state = "full"
    /\ fs_index.gen = fs_chunks.gen /\ fs_chunks.gen = fs_meta.gen

FilesConsistent == AllAbsent \/ SameBuild

\* C5: after a build() that failed or was interrupted, the three files on
\* disk are all absent or all written in full by one and the same build.
FailedBuildKeepsFilesConsistent == b_pc = "raised" => FilesConsistent

\* C6: whenever load_index has returned, the index, the chunk list and the
\* metadata it loaded were written by the same build() invocation, and
\* len(chunks) = index.ntotal = metadata.total_chunks.
LoadedSameGeneration ==
    c_pc = "ready" =>
        /\ c_index.gen = c_chunks.gen /\ c_chunks.gen = c_metadata.gen
        /\ Len(c_chunks.chunks) = Len(c_index.index)
        /\ Len(c_index.index) = c_metadata.metadata.total_chunks

\* the steps of build in the order the claim gives
PipelineOrder == <<"load", "chunk", "embed", "index", "persist">>

\* the step that failed when build raised: the one after the last completed
FailedStep == IF Len(b_trace) < Len(PipelineOrder) THEN PipelineOrder[Len(b_trace) + 1] ELSE "return"

\* C7: build completes its steps in the order load, chunk, embed, index,
\* persist, and when it raised in one of the first four, the three files are
\* exactly as they were when build was called (no step before save_index
\* writes a file).
BuildOrderAndFrame ==
    /\ b_trace = SubSeq(PipelineOrder, 1, Len(b_trace))
    /\ (b_pc \in {"load", "chunk", "embed", "index", "save_index"}) => files = b_fs_at_call
    /\ (b_pc = "raised" /\ FailedStep \in {"load", "chunk", "embed", "index"})
          => files = b_fs_at_call

\* a second build raised in create_faiss_index, the files of the first build in place
BuildFrameWitness ==
    /\ b_pc = "raised" /\ FailedStep = "index" /\ b_gen = 2
    /\ SameBuild /\ fs_index.gen = 1 /\ fs_index.index # <<>>

RanksContiguous ==
    c_retrieved.status = "ok" =>
        \A i \in 1..Len(c_retrieved.results) : c_retrieved.results[i].rank = i

\* retrieve returned a non-empty list shorter than top_k: the search padded
\* its answer with id -1
RanksWitness ==
    /\ c_retrieved.status = "ok"
    /\ Len(c_retrieved.results) >= 1
    /\ Len(c_retrieved.results) < c_top_k
    /\ \E i \in 1..Len(c_retrieved.hits) : c_retrieved.hits[i].id = -1

\* the hits of a search answer that are not padding, in order
RECURSIVE RealHits(_)
RealHits(hits) ==
    IF hits = <<>> THEN <<>>
    ELSE IF Head(hits).id = -1 THEN RealHits(Tail(hits))
    ELSE <<Head(hits)>> \o RealHits(Tail(hits))

\* C10: every retrieve call on a loaded chatbot returns min(top_k, N) results,
\* N the number of vectors of the loaded index: one per hit that is not
\* padding, in the order of the search, by non-decreasing distance.
RetrieveReturnsNearest ==
    (c_pc = "ready" /\ c_retrieved.status # "none") =>
        /\ c_retrieved.status = "ok"
        /\ LET res  == c_retrieved.results
               real == RealHits(c_retrieved.hits)
               N    == Len(c_index.index)
           IN  /\ Len(res) = (IF c_top_k < N THEN c_top_k ELSE N)
               /\ Len(res) = Len(real)
               /\ \A i \in 1..Len(res) :
                     /\ res[i].distance = real[i].distance
                     /\ res[i].text = c_chunks.chunks[real[i].id + 1].text
               /\ \A i, j \in 1..Len(res) : i < j => res[i].distance <= res[j].distance

----------------------------------------------------------------------------
(* Properties of the score *)

\* 0 < score <= 1
ScoreInRange(score) == FLess(FZero, score) /\ ~FLess(FOne, score)

\* 2 * d + 1, exactly
DoubledPlusOne(d) ==
    IF d[2] + 1 >= 0 THEN <<d[1] * Pow2(d[2] + 1) + 1, 0>>
    ELSE <<d[1] + Pow2(0 - (d[2] + 1)), d[2] + 1>>

\* C11 as stated: the score of every distance is in (0, 1], and of two
\* distances d1 < d2 the smaller has the strictly greater score.
ScoreStrictlyDecreasing ==
    s_pc = "scored" =>
        /\ ScoreInRange(s_score1) /\ ScoreInRange(s_score2)
        /\ FLess(s_d1, s_d2) => FLess(s_score2, s_score1)

\* C11 as amended: the score of every distance is in (0, 1]; of two distances
\* d1 < d2 the smaller never has the smaller score, and it has the strictly
\* greater one whenever 1 + d2 >= 2 * (1 + d1).
ScoreDecreasing ==
    s_pc = "scored" =>
        /\ ScoreInRange(s_score1) /\ ScoreInRange(s_score2)
        /\ FLess(s_d1, s_d2) => ~FLess(s_score1, s_score2)
        /\ ~FLess(s_d2, DoubledPlusOne(s_d1)) => FLess(s_score2, s_score1)

\* two different positive distances were given one and the same score
ScoreWitness ==
    /\ s_pc = "scored"
    /\ FLess(FZero, s_d1) /\ FLess(s_d1, s_d2)
    /\ s_score1 = s_score2

----------------------------------------------------------------------------
(* Properties of a finished build *)

\* C12: when build has returned, the index (in memory and as persisted) holds
\* one vector per chunk, vector i the embedding of chunk i, and the returned
\* total_chunks, the returned index_size and the persisted metadata
\* total_chunks all equal the number of chunks.
BuildOneVectorPerChunk ==
    b_pc = "returned" =>
        /\ Len(b_index) = Len(b_chunks)
        /\ \A i \in 1..Len(b_chunks) : b_index[i] = Encode(b_chunks[i].text)
        /\ fs_index = IndexFile(b_gen, b_index)
        /\ fs_chunks = ChunksFile(b_gen, b_chunks)
        /\ b_result.total_chunks = Len(b_chunks)
        /\ b_result.index_size = Len(b_chunks)
        /\ fs_meta.state = "full"
        /\ fs_meta.metadata.total_chunks = Len(b_chunks)

\* a build over a split section and a short one has returned
BuildOneVectorWitness ==
    /\ b_pc = "returned"
    /\ Len(b_chunks) >= 3
    /\ \E i, j \in 1..Len(b_chunks) : b_index[i] # b_index[j]

----------------------------------------------------------------------------
(* Properties of chunk_by_sections on aggregated documents and on sections *)

\* whether sub occurs in s
Contains(s, sub) == sub = <<>> \/ \E i \in 1..Len(s) : MatchAt(s, sub, i)

\* C13: for the aggregation of several non-empty documents, every document
\* yields at least one chunk, and every chunk carries the name of one document
\* in its section label and has its text from that document's content alone.
DocumentsChunkedApart ==
    \A docs \in DocumentLists :
        (pc = "done" /\ content = AggregateDocuments(docs)) =>
            /\ \A k \in 1..Len(docs) :
                  \E i \in 1..Len(chunks) : Contains(chunks[i].section, docs[k].filename)
            /\ \A i \in 1..Len(chunks) :
                  \E k \in 1..Len(docs) :
                      /\ Contains(chunks[i].section, docs[k].filename)
                      /\ Contains(Strip(docs[k].content), chunks[i].text)

\* '=== PAGINA: <label> ===' and the newline after it
PageHeader(label) == Marker \o <<" ">> \o label \o <<" ">> \o Rule \o <<NL>>

\* the piece content.split gives for a section written as PageHeader(label) + body
PageBody(piece, label) == From(piece, Len(PageHeader(label)) - Len(Marker) + 1)

\* whether a piece of content.split comes from a section headed PageHeader(label)
HeadedBy(piece, label) == MatchAt(Marker \o piece, PageHeader(label), 1)

\* C14: every chunk appended for a section written '=== PAGINA: A ===', a
\* newline and a body has the section field 'A', with the suffix ' (part n)'
\* exactly when the trimmed body is longer than chunk_size; and a content of
\* that one section, its body not blank and shorter than chunk_size, yields
\* exactly one chunk, with section 'A'.
SectionLabelled ==
    [][ /\ (chunks' # chunks /\ sections # <<>> /\ HeadedBy(Head(sections), <<"A">>)) =>
              LET new  == chunks'[Len(chunks')]
                  body == Strip(PageBody(Head(sections), <<"A">>))
              IN  /\ Len(chunks') = Len(chunks) + 1
                  /\ new.section = (IF Len(body) > chunk_size
                                    THEN PartLabel(<<"A">>, part_num)
                                    ELSE <<"A">>)
        /\ (pc' = "done" /\ MatchAt(content, PageHeader(<<"A">>), 1)) =>
              LET body == From(content, Len(PageHeader(<<"A">>)) + 1)
              IN  (~Contains(body, Marker) /\ Strip(body) # <<>> /\ Len(body) < chunk_size)
                      => (Len(chunks') = 1 /\ chunks'[1].section = <<"A">>) ]_vars

\* the one-section content '=== PAGINA: A ===\nab' has been chunked with
\* chunk_size 3 into its single chunk
SectionLabelledWitness ==
    /\ pc = "done"
    /\ content = PageHeader(<<"A">>) \o <<"a", "b">>
    /\ chunk_size = 3
    /\ Len(chunks) = 1 /\ chunks[1].section = <<"A">>

RECURSIVE AfterFirstLine(_)
\* what follows the first newline of s (nothing when s is one line)
AfterFirstLine(s) ==
    IF s = <<>> THEN <<>>
    ELSE IF Head(s) = NL THEN Tail(s) ELSE AfterFirstLine(Tail(s))

\* the body of a section: what follows its label line, without the
\* whitespace around it
TrimmedBody(piece) == Strip(AfterFirstLine(Strip(piece)))

\* ' (part', the beginning of a part suffix
PartSuffix == <<" ", "(", "p", "a", "r", "t">>

\* C15: the for loop passes over a section whose body is empty or only
\* whitespace without appending a chunk, and for a section whose body (its
\* whitespace trimmed) has at most chunk_size characters it appends exactly
\* one chunk, the whole body its text and no part suffix in its label.
SmallSections ==
    [][ (pc = "for" /\ sections # <<>>) =>
            LET body == TrimmedBody(Head(sections))
            IN  /\ body = <<>> => (chunks' = chunks /\ pc' = "for")
                /\ (body # <<>> /\ Len(body) <= chunk_size) =>
                      /\ pc' = "for" /\ sections' = Tail(sections)
                      /\ chunks' = Append(chunks, chunks'[Len(chunks')])
                      /\ chunks'[Len(chunks')].text = body
                      /\ ~Contains(chunks'[Len(chunks')].section, PartSuffix) ]_vars

\* a content of a section with a blank body and a section with a short body
\* has been chunked: the first gave nothing, the second its one chunk
SmallSectionsWitness ==
    /\ pc = "done"
    /\ content = PageHeader(<<"A">>) \o <<" ">> \o Marker \o <<"B", NL, "x", "y">>
    /\ chunk_size >= 2
    /\ Len(chunks) = 1 /\ chunks[1].text = <<"x", "y">> /\ chunks[1].section = <<"B">>

----------------------------------------------------------------------------
(* Properties of the not-found errors *)

\* C19: a build whose content path is not there, or is a directory none of
\* whose files loads, raises FileNotFoundError out of load_content with the
\* three files untouched; and a load_index that ends while one of the three
\* files is absent ends in FileNotFoundError, the chatbot not constructed.
NotFoundErrors ==
    [][ /\ (b_pc = "load" /\ ~HasContent(b_source) /\ b_pc' # "load") =>
              (b_pc' = "raised" /\ b_error' = "FileNotFoundError" /\ files' = b_fs_at_call)
        /\ (c_pc \in {"load", "read_index", "read_chunks", "read_metadata"}
              /\ c_pc' \in {"ready", "failed"}
              /\ (fs_index = Absent \/ fs_chunks = Absent \/ fs_meta = Absent)) =>
              (c_pc' = "failed" /\ c_error' = "FileNotFoundError") ]_vars

----------------------------------------------------------------------------
(* Properties of chat and format_context *)

\* C16: when the completion call raises, chat does not raise: it returns a
\* dict whose answer is the error text, whose sources are empty and whose
\* error is the message of the exception, whatever the query and whatever
\* was retrieved.
ServiceErrorAnswered ==
    ch_exception # <<>> =>
        /\ ch_pc = "returned"
        /\ ch_error = "none"
        /\ DOMAIN ch_result = {"answer", "sources", "query", "error"}
        /\ ch_result.answer = ErrorPrefix \o ch_exception[1]
        /\ ch_result.sources = <<>>
        /\ ch_result.error = ch_exception[1]
        /\ ch_result.query = ch_query

\* the completion call raised after a retrieval that found sources
ServiceErrorWitness ==
    /\ ch_exception # <<>>
    /\ ch_pc = "returned"
    /\ ch_retrieved # <<>>
    /\ ch_sources # <<>>

\* C17: an exception on the retrieval path (query embedding, index search, a
\* chunk id past the chunk list) leaves chat as an exception: chat has ended
\* without a completion call exactly when it raised, and then it returned no
\* dict.
RetrievalErrorsPropagate ==
    /\ ch_error # "none" => (ch_pc = "raised" /\ ch_result = NoResult /\ ch_calls = 0)
    /\ (ch_pc \in {"returned", "raised"} /\ ch_calls = 0) =>
          (ch_pc = "raised" /\ ch_error # "none" /\ ch_result = NoResult)

\* the chunk lookup raised IndexError: the index holds more vectors than the
\* chunk list has chunks
RetrievalErrorWitness ==
    /\ ch_pc = "raised"
    /\ ch_error = "IndexError"
    /\ Len(c_index.index) > Len(c_chunks.chunks)

\* C18: an invocation of chat calls completions.create at most once, and
\* after a call that raised it has returned without a second one.
AtMostOneCompletion ==
    /\ ch_calls <= 1
    /\ ch_exception # <<>> => (ch_calls = 1 /\ ch_pc = "returned")

\* the one call was made and raised
OneCompletionWitness == ch_calls = 1 /\ ch_exception # <<>> /\ ch_pc = "returned"

\* C20: format_context of the empty list is the pair
\* ("No relevant content found.", []).
EmptyResultsFormatted ==
    (ch_pc = "llm" /\ ch_retrieved = <<>>) =>
        /\ ch_context = NoContentText
        /\ Len(ch_context) = 26
        /\ ch_sources = <<>>

\* format_context was applied to the empty list
EmptyResultsWitness == ch_pc = "llm" /\ ch_retrieved = <<>> /\ ch_context # <<>>

\* the position of the first result of section sec
FirstOf(results, sec) ==
    CHOOSE i \in 1..Len(results) :
        /\ results[i].section = sec
        /\ \A j \in 1..(i - 1) : results[j].section # sec

RECURSIVE EntriesFrom(_, _)
\* the entries of the results from the i-th on, the delimiter between them
EntriesFrom(results, i) ==
    LET entry == SectionOpen \o results[i].section \o <<"]", NL>>
                     \o results[i].text \o <<NL>>
    IN  IF i = Len(results) THEN entry
        ELSE entry \o Separator \o EntriesFrom(results, i + 1)

\* C21: for a non-empty result list the sources of format_context are the
\* section labels of the results, each once, in the order of their first
\* result, and the context is one entry per result, in result order, with
\* the delimiter between them.
SourcesAndContext ==
    (ch_pc = "llm" /\ ch_retrieved # <<>>) =>
        /\ \A i, j \in 1..Len(ch_sources) : i # j => ch_sources[i] # ch_sources[j]
        /\ { ch_sources[i] : i \in 1..Len(ch_sources) }
              = { ch_retrieved[i].section : i \in 1..Len(ch_retrieved) }
        /\ \A i, j \in 1..Len(ch_sources) :
              i < j => FirstOf(ch_retrieved, ch_sources[i]) < FirstOf(ch_retrieved, ch_sources[j])
        /\ ch_context = EntriesFrom(ch_retrieved, 1)
        /\ Len(Split(ch_context, Separator)) = Len(ch_retrieved)

\* three results whose sections are B, A, B: a duplicate, and a first
\* occurrence order that is not the sorted one
SourcesWitness ==
    /\ ch_pc = "llm"
    /\ Len(ch_retrieved) = 3
    /\ ch_retrieved[1].section = <<"B">>
    /\ ch_retrieved[2].section = <<"A">>
    /\ ch_retrieved[3].section = <<"B">>
    /\ ch_sources = << <<"B">>, <<"A">> >>

----------------------------------------------------------------------------
(* Properties of the persisted metadata and of rebuilds *)

\* the keys spec and admin panel expect in metadata.json
MetadataKeys ==
    { "total_chunks", "embedding_dimension", "model_name", "chunk_size",
      "chunk_overlap", "sections", "build_timestamp" }

\* C22: the metadata a successful build has written holds total_chunks,
\* embedding_dimension, model_name, chunk_size, chunk_overlap, sections and
\* build_timestamp; chunk_size and chunk_overlap are the values chunking used
\* and sections is the set of the section labels of the persisted chunks.
MetadataComplete ==
    (b_pc = "returned" /\ fs_meta.state = "full" /\ fs_chunks.state = "full") =>
        /\ MetadataKeys \subseteq DOMAIN fs_meta.metadata
        /\ fs_meta.metadata.total_chunks = Len(fs_chunks.chunks)
        /\ fs_meta.metadata.chunk_size = chunk_size
        /\ fs_meta.metadata.chunk_overlap = chunk_overlap
        /\ fs_meta.metadata.sections
              = { fs_chunks.chunks[i].section : i \in 1..Len(fs_chunks.chunks) }

\* C23: when a build has returned, whatever builds came before it, the three
\* files hold the chunks of its content, one vector per chunk, and the
\* metadata of those chunks: nothing of an earlier build is left.
RebuildReplaces ==
    b_pc = "returned" =>
        LET built == ChunkBySections(b_content)
        IN  /\ fs_chunks = ChunksFile(b_gen, built)
            /\ fs_index = IndexFile(b_gen, GenerateEmbeddings(Texts(built)))
            /\ fs_meta = MetaFile(b_gen, Metadata(built))

\* a second build has returned over the files of a first one that had
\* indexed more chunks
RebuildWitness ==
    /\ b_pc = "returned"
    /\ b_gen = 2
    /\ b_fs_at_call[1].state = "full"
    /\ b_fs_at_call[2].state = "full"
    /\ Len(b_fs_at_call[1].index) > Len(fs_index.index)
    /\ Len(fs_index.index) > 0

----------------------------------------------------------------------------
(* Properties of document loading *)

\* a file load_directory can load: supported suffix, loader returns
Loadable(file) == Lower(file.ext) \in SupportedExts /\ file.ok

\* the document dict of a file
DocumentOf(file) == [filename |-> file.filename, content |-> file.content]

\* C24: load_directory returns the documents of exactly the files with a
\* supported suffix whose loading does not raise, one document per file: a
\* file that raises and a file with another suffix are passed over and the
\* files after them are still loaded.
DirectoryBestEffort ==
    (b_source.kind = "dir" /\ b_pc # "load") =>
        LET entries == b_source.entries
            good    == { i \in 1..Len(entries) : Loadable(entries[i]) }
        IN  /\ Len(b_documents) = Cardinality(good)
            /\ \A i \in good : \E k \in 1..Len(b_documents) : b_documents[k] = DocumentOf(entries[i])
            /\ \A k \in 1..Len(b_documents) : \E i \in good : b_documents[k] = DocumentOf(entries[i])
            /\ b_pc = "raised" <=> good = {}

\* a directory whose first file raises in its loader and whose second file
\* loads: the second is returned
DirectoryWitness ==
    /\ b_source.kind = "dir" /\ b_pc = "chunk"
    /\ Len(b_source.entries) = 2
    /\ Lower(b_source.entries[1].ext) \in SupportedExts /\ ~b_source.entries[1].ok
    /\ Loadable(b_source.entries[2])
    /\ b_documents = <<DocumentOf(b_source.entries[2])>>

\* C25: a single file of an unrecognized suffix is a hard failure:
\* load_document raises for it, and a build on it raises in load_content
\* without taking the file as content.
UnsupportedFileIsFatal ==
    /\ (ld_result # NoResult /\ Exists(ld_file) /\ Lower(ld_file.ext) \notin SupportedExts)
          => ld_result.status = "ValueError"
    /\ (b_source.kind = "file" /\ Lower(b_source.ext) \notin SupportedExts /\ b_pc # "load")
          => (b_pc = "raised" /\ b_content = <<>>)

----------------------------------------------------------------------------
(* Properties of the order and numbering of chunks *)

\* ceil(a / b) for b > 0
CeilDiv(a, b) == (a + b - 1) \div b

\* part n of a body: from offset (n-1) * (chunk_size - chunk_overlap), at most
\* chunk_size characters
PartOf(body, n) ==
    LET from == (n - 1) * (chunk_size - chunk_overlap)
        upto == IF from + chunk_size < Len(body) THEN from + chunk_size ELSE Len(body)
    IN  SubSeq(body, from + 1, upto)

\* the chunks of one piece of the content: none for a blank body, the body
\* under its label when it fits, else its numbered parts
PieceChunks(piece) ==
    LET body == TrimmedBody(piece)
        name == SectionName(piece)
    IN  IF body = <<>> THEN <<>>
        ELSE IF Len(body) <= chunk_size THEN <<Chunk(body, name)>>
        ELSE [n \in 1..CeilDiv(Len(body), chunk_size - chunk_overlap) |->
                 Chunk(PartOf(body, n), PartLabel(name, n))]

RECURSIVE PiecesChunks(_)
PiecesChunks(pieces) ==
    IF pieces = <<>> THEN <<>>
    ELSE PieceChunks(Head(pieces)) \o PiecesChunks(Tail(pieces))

\* C26: the list chunk_by_sections returns is, section after section in the
\* order of the content, the chunks of each section; a split section gives
\* ceil(len(body) / (chunk_size - chunk_overlap)) parts labelled
\* '<label> (part n)', n from 1 in each section, part n starting at offset
\* (n-1) * (chunk_size - chunk_overlap).
PartsNumberedInOrder ==
    pc = "done" => chunks = PiecesChunks(Split(content, Marker))

\* two sections were split: a later chunk of another section is again part 1
\* after a part 2
PartsWitness ==
    /\ pc = "done"
    /\ \E i, j \in 1..Len(chunks) :
          /\ i < j
          /\ LastN(chunks[i].section, 9) = PartLabel(<<>>, 2)
          /\ LastN(chunks[j].section, 9) = PartLabel(<<>>, 1)
          /\ chunk_overlap > 0

----------------------------------------------------------------------------
(* Properties of the constructor arguments *)

\* C27: chunk_by_sections works with the chunk_size and the chunk_overlap the
\* constructor was given whenever it was given one, 0 included, and with the
\* configured value only when the argument was omitted.
ConstructorArgsUsed ==
    pc # "call" =>
        /\ chunk_size = (IF arg_chunk_size = <<>> THEN cfg_chunk_size ELSE arg_chunk_size[1])
        /\ chunk_overlap = (IF arg_chunk_overlap = <<>> THEN cfg_chunk_overlap
                            ELSE arg_chunk_overlap[1])

----------------------------------------------------------------------------
(* Properties of the admin panel *)

\* the saved files that are still what their names hold in client_content
SavedFiles == { i \in 1..Len(d_saved) :
                  \A j \in (i + 1)..Len(d_saved) : d_saved[j].filename # d_saved[i].filename }

\* C28: when the default build that follows an upload loads its content,
\* every file saved through the upload is among the documents it reads,
\* whatever else lies in the data directory and whatever data.input_folder
\* says.
UploadsAreRead ==
    [][ (b_default /\ b_pc = "load" /\ b_pc' # "load") =>
            \A i \in SavedFiles :
                /\ b_pc' = "chunk"
                /\ \E k \in 1..Len(b_documents') : b_documents'[k] = DocumentOf(d_saved[i]) ]_vars

LoopLeftOnlyOnExit ==
    [][ (ri_prompts' # ri_prompts) =>
          LET typed == ri_event'.kind = "line"
              query == IF typed THEN Strip(ri_event'.text) ELSE <<>>
          IN  /\ (ri_pc' = "left") =>
                    \/ typed /\ Lower(query) \in { <<"e","x","i","t">>, <<"q","u","i","t">> }
                    \/ ri_raised' = "KeyboardInterrupt"
              /\ (typed /\ (query = <<>> \/ query = <<"h","e","l","p">>)) =>
                    ri_chats' = ri_chats /\ ri_pc' = "prompt"
              /\ (ri_raised' = "Exception") =>
                    ri_pc' = "prompt" /\ ri_reported' = ri_reported + 1 ]_vars

\* an error from a query has been reported, the loop went on and a later
\* ' Exit ' ended it
LoopWitness ==
    /\ ri_pc = "left"
    /\ ri_event = Line(<<" ","E","x","i","t"," ">>)
    /\ ri_reported >= 1
    /\ ri_chats >= 1


============================================================================
